---- MODULE Spec2Model ----
(***************************************************************************)
(* A model of the evaluation harness rag_eval_bdd: the results store       *)
(* (results_store.py), alone and with save_run running in two processes,   *)
(* the backend gateway's ask cache (backend_client.py), the evaluation     *)
(* runner (evaluator.py) and the metric selection (metric_registry.py).    *)
(*                                                                         *)
(* Abstractions: a run file holds the RunResult that was dumped to it (the *)
(* JSON text itself is not modelled; a file json.loads rejects is the      *)
(* state "unparsable"); timestamps, feature and scenario names are left    *)
(* out of RunResult, RunIndexEntry, TrendPoint and TrendSummary.           *)
(***************************************************************************)
EXTENDS Integers, Sequences, FiniteSets, TLC

\* ------------------------------------------------------------------- state
\* The results store (results_store.py).
VARIABLES
    keep_last_n,    \* ResultsStore.keep_last_n
    files,          \* runs/<run_id>/results.json, by run_id
    index,          \* index.json: the recent index, newest first
    current,        \* current_index.json: the current-session index
    trend_file,     \* trends/last5.json: whether it exists, and its TrendSummary
    op,             \* the operation that ran last
    ret,            \* what the last operation returned: the list of RunResults of
                    \* a load, <<TrendSummary>> of refresh_trends
    raised,         \* the exception the last operation raised, or NoError
    saved,          \* history: the RunResults passed to save_run, oldest first
    sessionStart,   \* history: Len(saved) at the last reset_current_session
    refreshed       \* history: the refresh_trends calls made in a row

storeVars == <<keep_last_n, files, index, current, trend_file, op, ret, raised,
               saved, sessionStart, refreshed>>

\* Processes that run save_run on the same base directory.
VARIABLES
    procs           \* per process: where it is in save_run, and its locals

raceVars == <<procs>>

\* One BackendClient and the caller of ask_question (backend_client.py).
VARIABLES
    heap,           \* the response dicts alive in the process, by object identity
    ask_cache,      \* BackendClient._ask_cache: key -> the object cached, or NoObject
    handed,         \* the responses returned to the caller, in call order
    c_op,           \* the client step that ran last
    c_call,         \* the last ask_question call: its key, outcome and returned value
    http_ok,        \* history: successful HTTP asks per (session_id, stripped question)
    http_calls,     \* history: HTTP asks made, failed ones included
    received,       \* history: the payload of the HTTP response that filled the cache
    all_cached,     \* history: every ask_question so far had use_cache = true
    asked           \* history: the number of ask_question calls

clientVars == <<heap, ask_cache, handed, c_op, c_call, http_ok, http_calls,
                received, all_cached, asked>>

\* One call of EvaluationRunner.evaluate_dataset (evaluator.py).
VARIABLES
    e_config,         \* AppConfig.evaluation: the toggles evaluate_dataset reads
    e_input,          \* the arguments of evaluate_dataset
    pc,               \* where evaluate_dataset is: "ask", "score", "aggregate", "done", "raised"
    row_index,        \* enumerate(rows): the index of the row in work, from 0
    row_metrics,      \* the metrics resolved for the row in work
    metric_results,   \* the MetricResults of the row in work
    question_results, \* the QuestionEvalResults of the rows done
    e_result,       \* the RunResult returned, once pc = "done"
    e_raised,         \* the exception evaluate_dataset raised, or NoError
    uploads,          \* the number of upload_document calls answered
    backend_log,      \* history: the backend calls made, in order
    drawn_row,        \* history: what each scorer did for the row in work
    drawn             \* history: what each scorer did, per row done

evalVars == <<e_config, e_input, pc, row_index, row_metrics, metric_results,
              question_results, e_result, e_raised, uploads, backend_log,
              drawn_row, drawn>>

\* Calls of the functions of metric_registry.py and of _resolve_row_metrics.
VARIABLES
    sel,            \* a call of select_metrics_from_tags: arguments and result
    res,            \* a call of _resolve_row_metrics: arguments and result
    trim,           \* a call of _trim_retrieval_context: config, argument and result
    agg             \* a call of _aggregate: arguments and result

fnVars == <<sel, res, trim, agg>>

\* One pytest-bdd scenario: its ScenarioState and the steps it has run.
VARIABLES
    scn

scenarioVars == <<scn>>

vars == <<storeVars, raceVars, clientVars, evalVars, fnVars, scenarioVars>>

\* ------------------------------------------------------------------ bounds
\* The largest keep_last_n a store is constructed with.
MaxKeep == 2
\* The number of save_run calls in one behaviour.
MaxSaves == 3
\* The number of refresh_trends calls made in a row.
MaxRefresh == 2

\* ----------------------------------------------------------------- helpers
Reverse(s) == [i \in 1..Len(s) |-> s[Len(s) + 1 - i]]

Min(a, b) == IF a < b THEN a ELSE b

Max(a, b) == IF a < b THEN b ELSE a

\* Python's s[:n] on a list.
SlicePrefix(s, n) ==
    IF n >= 0 THEN SubSeq(s, 1, Min(n, Len(s)))
    ELSE SubSeq(s, 1, Max(0, Len(s) + n))

\* The values of a sequence.
Range(s) == {s[i] : i \in 1..Len(s)}

\* ------------------------------------------------------------ results store
NoError == "none"

\* MetricAggregate, as far as the trend uses it.
Aggregate(m, avg) == [metric_name |-> m, avg_score |-> avg]

\* The RunResults a caller saves. A run_id names one RunResult (RunResult is
\* immutable once built); the metric aggregates differ between runs and are in
\* canonical metric order, as _aggregate produces them.
RunPool ==
    { [run_id |-> 1, metric_aggregates |->
          <<Aggregate("contextual_precision", 71)>>],
      [run_id |-> 2, metric_aggregates |->
          <<Aggregate("contextual_precision", 69), Aggregate("answer_relevancy", 80)>>],
      [run_id |-> 3, metric_aggregates |->
          <<Aggregate("answer_relevancy", 75), Aggregate("faithfulness", 90)>>] }

RunIds == {r.run_id : r \in RunPool}

NoRun == [run_id |-> 0, metric_aggregates |-> <<>>]

\* The states of a run file.
MissingFile == [state |-> "missing", payload |-> NoRun]

UnparsableFile == [state |-> "unparsable", payload |-> NoRun]

ValidFile(run_result) == [state |-> "valid", payload |-> run_result]

\* RunIndexEntry: run_id and the relative path runs/<run_id>/results.json,
\* which the model names by the run_id.
RunIndexEntry(run_result) == [run_id |-> run_result.run_id, path |-> run_result.run_id]

\* Python's order on the metric names (sorted(metric_map.items())).
NameRank(m) ==
    CASE m = "answer_relevancy" -> 1
      [] m = "completeness" -> 2
      [] m = "contextual_precision" -> 3
      [] m = "contextual_recall" -> 4
      [] m = "contextual_relevancy" -> 5
      [] m = "faithfulness" -> 6

RECURSIVE SortedNames(_)
SortedNames(S) ==
    IF S = {} THEN <<>>
    ELSE LET m == CHOOSE x \in S : \A y \in S : NameRank(x) <= NameRank(y)
         IN <<m>> \o SortedNames(S \ {m})

TrendPoint(run_result, aggregate) ==
    [run_id |-> run_result.run_id, avg_score |-> aggregate.avg_score]

\* The points one run adds to one metric's list, in aggregate order.
RECURSIVE PointsOfRun(_, _, _)
PointsOfRun(run_result, aggs, m) ==
    IF aggs = <<>> THEN <<>>
    ELSE (IF Head(aggs).metric_name = m
          THEN <<TrendPoint(run_result, Head(aggs))>> ELSE <<>>)
         \o PointsOfRun(run_result, Tail(aggs), m)

\* metric_map[m] after the loop over reversed(entries), given the files fs.
RECURSIVE MetricPoints(_, _, _)
MetricPoints(ordered, fs, m) ==
    IF ordered = <<>> THEN <<>>
    ELSE LET f == fs[Head(ordered).path]
         IN (IF f.state = "valid"
             THEN PointsOfRun(f.payload, f.payload.metric_aggregates, m)
             ELSE <<>>)
            \o MetricPoints(Tail(ordered), fs, m)

\* The metric names found in the run files of the entries that parse.
MetricNames(entries, fs) ==
    {a.metric_name : a \in UNION
        {Range(fs[entries[i].path].payload.metric_aggregates) :
            i \in {j \in 1..Len(entries) : fs[entries[j].path].state = "valid"}}}

\* The TrendSummary whose metric lists are filled from the entries in the order given.
TrendSummary(ordered, fs) ==
    LET order == SortedNames(MetricNames(ordered, fs))
    IN [keep_last_n |-> keep_last_n,
        metrics |-> [k \in 1..Len(order) |->
            [metric_name |-> order[k],
             points |-> MetricPoints(ordered, fs, order[k])]]]

\* A slip: the index is walked newest first.
MutBuildTrendsNewestFirst(entries, fs) ==
    IF \E i \in 1..Len(entries) : fs[entries[i].path].state = "unparsable"
    THEN [raised |-> "JSONDecodeError", value |-> TrendSummary(<<>>, fs)]
    ELSE [raised |-> NoError, value |-> TrendSummary(entries, fs)]

\* _build_trends: the entries are walked oldest first; a missing file is
\* skipped; a file that exists and does not parse makes json.loads raise.
BuildTrends(entries, fs) ==
    IF \E i \in 1..Len(entries) : fs[entries[i].path].state = "unparsable"
    THEN [raised |-> "JSONDecodeError", value |-> TrendSummary(<<>>, fs)]
    ELSE [raised |-> NoError, value |-> TrendSummary(Reverse(entries), fs)]

\* A slip: the loop stops at the first missing file instead of skipping it.
RECURSIVE MutLoadStopsAtMissing(_, _)
MutLoadStopsAtMissing(entries, fs) ==
    IF entries = <<>> \/ fs[Head(entries).path].state = "missing" THEN <<>>
    ELSE <<fs[Head(entries).path].payload>> \o MutLoadStopsAtMissing(Tail(entries), fs)

\* The loop of load_recent_run_results and load_current_session_run_results.
RECURSIVE LoadLoop(_, _)
LoadLoop(entries, fs) ==
    IF entries = <<>> THEN <<>>
    ELSE (IF fs[Head(entries).path].state = "missing" THEN <<>>
          ELSE <<fs[Head(entries).path].payload>>)
         \o LoadLoop(Tail(entries), fs)

LoadRunResults(entries, fs) ==
    IF \E i \in 1..Len(entries) : fs[entries[i].path].state = "unparsable"
    THEN [raised |-> "JSONDecodeError", value |-> <<>>]
    ELSE [raised |-> NoError, value |-> LoadLoop(entries, fs)]

\* ResultsStore.__init__ on an empty base directory.
InitStore ==
    /\ keep_last_n \in 0..MaxKeep
    /\ files = [id \in RunIds |-> MissingFile]
    /\ index = <<>>
    /\ current = <<>>
    /\ trend_file = [exists |-> FALSE, summary |-> [keep_last_n |-> keep_last_n, metrics |-> <<>>]]
    /\ op = "init"
    /\ ret = <<>>
    /\ raised = NoError
    /\ saved = <<>>
    /\ sessionStart = 0
    /\ refreshed = 0

\* A slip: the index is cut to keep_last_n before the new entry goes in.
MutTruncateBeforeInsert(entries, new_entry) ==
    <<new_entry>> \o SlicePrefix(entries, keep_last_n)

\* entries.insert(0, new_entry); entries = entries[:keep_last_n]
RecentAfterInsert(entries, new_entry) ==
    SlicePrefix(<<new_entry>> \o entries, keep_last_n)

\* A slip: the current-session index is cut like the recent index.
MutCurrentTruncated(current_entries, new_entry) ==
    SlicePrefix(<<new_entry>> \o current_entries, keep_last_n)

\* current_entries.insert(0, new_entry)
CurrentAfterInsert(current_entries, new_entry) ==
    <<new_entry>> \o current_entries

\* A slip: the run files of the entries cut out of the recent index are removed.
MutSaveRunDeletesTruncated(run_result) ==
    /\ Len(saved) < MaxSaves
    /\ LET new_entry == RunIndexEntry(run_result)
           entries == RecentAfterInsert(index, new_entry)
           written == [id \in RunIds |->
                          IF id = new_entry.path THEN ValidFile(run_result)
                          ELSE IF \E k \in 1..Len(entries) : entries[k].path = id
                          THEN files[id]
                          ELSE MissingFile]
           built == BuildTrends(entries, written)
       IN /\ files' = written
          /\ index' = entries
          /\ current' = CurrentAfterInsert(current, new_entry)
          /\ trend_file' = IF built.raised = NoError
                          THEN [exists |-> TRUE, summary |-> built.value]
                          ELSE trend_file
          /\ raised' = built.raised
    /\ op' = "save_run"
    /\ refreshed' = 0
    /\ ret' = <<>>
    /\ saved' = Append(saved, run_result)
    /\ UNCHANGED <<keep_last_n, sessionStart>>
    /\ UNCHANGED <<raceVars, clientVars, evalVars, fnVars, scenarioVars>>

\* What save_run leaves on disk: the run file, both indices and the trend
\* file, and the exception of the trend rebuild if it raised.
SavedStore(run_result) ==
    LET new_entry == RunIndexEntry(run_result)
        written == [files EXCEPT ![new_entry.path] = ValidFile(run_result)]
        entries == RecentAfterInsert(index, new_entry)
        built == BuildTrends(entries, written)
    IN [files |-> written,
        index |-> entries,
        current |-> CurrentAfterInsert(current, new_entry),
        trend_file |-> IF built.raised = NoError
                       THEN [exists |-> TRUE, summary |-> built.value]
                       ELSE trend_file,
        raised |-> built.raised]

save_run(run_result) ==
    /\ Len(saved) < MaxSaves
    /\ LET after == SavedStore(run_result)
       IN /\ files' = after.files
          /\ index' = after.index
          /\ current' = after.current
          /\ trend_file' = after.trend_file
          /\ raised' = after.raised
    /\ op' = "save_run"
    /\ refreshed' = 0
    /\ ret' = <<>>
    /\ saved' = Append(saved, run_result)
    /\ UNCHANGED <<keep_last_n, sessionStart>>
    /\ UNCHANGED <<raceVars, clientVars, evalVars, fnVars, scenarioVars>>

load_recent_run_results ==
    /\ LET loaded == LoadRunResults(index, files)
       IN /\ ret' = loaded.value
          /\ raised' = loaded.raised
    /\ op' = "load_recent_run_results"
    /\ refreshed' = 0
    /\ UNCHANGED <<keep_last_n, files, index, current, trend_file, saved, sessionStart>>
    /\ UNCHANGED <<raceVars, clientVars, evalVars, fnVars, scenarioVars>>

load_current_session_run_results ==
    /\ LET loaded == LoadRunResults(current, files)
       IN /\ ret' = loaded.value
          /\ raised' = loaded.raised
    /\ op' = "load_current_session_run_results"
    /\ refreshed' = 0
    /\ UNCHANGED <<keep_last_n, files, index, current, trend_file, saved, sessionStart>>
    /\ UNCHANGED <<raceVars, clientVars, evalVars, fnVars, scenarioVars>>

\* A slip: the reset writes the empty list to both index files.
MutResetClearsBothIndices ==
    /\ current' = <<>>
    /\ index' = <<>>
    /\ op' = "reset_current_session"
    /\ refreshed' = 0
    /\ ret' = <<>>
    /\ raised' = NoError
    /\ sessionStart' = Len(saved)
    /\ UNCHANGED <<keep_last_n, files, trend_file, saved>>
    /\ UNCHANGED <<raceVars, clientVars, evalVars, fnVars, scenarioVars>>

reset_current_session ==
    /\ current' = <<>>
    /\ op' = "reset_current_session"
    /\ refreshed' = 0
    /\ ret' = <<>>
    /\ raised' = NoError
    /\ sessionStart' = Len(saved)
    /\ UNCHANGED <<keep_last_n, files, index, trend_file, saved>>
    /\ UNCHANGED <<raceVars, clientVars, evalVars, fnVars, scenarioVars>>

\* A slip: the entries are reversed in place and written back.
MutRefreshReversesIndex ==
    /\ refreshed < MaxRefresh
    /\ LET built == BuildTrends(index, files)
       IN /\ trend_file' = IF built.raised = NoError
                          THEN [exists |-> TRUE, summary |-> built.value]
                          ELSE trend_file
          /\ raised' = built.raised
          /\ ret' = IF built.raised = NoError THEN <<built.value>> ELSE <<>>
    /\ index' = Reverse(index)
    /\ op' = "refresh_trends"
    /\ refreshed' = refreshed + 1
    /\ UNCHANGED <<keep_last_n, files, current, saved, sessionStart>>
    /\ UNCHANGED <<raceVars, clientVars, evalVars, fnVars, scenarioVars>>

refresh_trends ==
    /\ refreshed < MaxRefresh
    /\ LET built == BuildTrends(index, files)
       IN /\ trend_file' = IF built.raised = NoError
                          THEN [exists |-> TRUE, summary |-> built.value]
                          ELSE trend_file
          /\ raised' = built.raised
          /\ ret' = IF built.raised = NoError THEN <<built.value>> ELSE <<>>
    /\ op' = "refresh_trends"
    /\ refreshed' = refreshed + 1
    /\ UNCHANGED <<keep_last_n, files, index, current, saved, sessionStart>>
    /\ UNCHANGED <<raceVars, clientVars, evalVars, fnVars, scenarioVars>>

\* The environment: a run file is removed outside the store (cleanup).
ExternalDelete(id) ==
    /\ files[id].state # "missing"
    /\ files' = [files EXCEPT ![id] = MissingFile]
    /\ op' = "external_delete"
    /\ refreshed' = 0
    /\ ret' = <<>>
    /\ raised' = NoError
    /\ UNCHANGED <<keep_last_n, index, current, trend_file, saved, sessionStart>>
    /\ UNCHANGED <<raceVars, clientVars, evalVars, fnVars, scenarioVars>>

\* The environment: a run file is overwritten with text that is not JSON.
ExternalCorrupt(id) ==
    /\ files[id].state = "valid"
    /\ files' = [files EXCEPT ![id] = UnparsableFile]
    /\ op' = "external_corrupt"
    /\ refreshed' = 0
    /\ ret' = <<>>
    /\ raised' = NoError
    /\ UNCHANGED <<keep_last_n, index, current, trend_file, saved, sessionStart>>
    /\ UNCHANGED <<raceVars, clientVars, evalVars, fnVars, scenarioVars>>

\* ------------------------------------------- save_run in several processes
\* Each process has its own ResultsStore over the same base directory and
\* calls save_run once; the statements of save_run that read or write a file
\* are the steps.
Procs == {"p1", "p2"}

Locals(pc_, run_result, entries, current_entries) ==
    [pc |-> pc_, run_result |-> run_result, entries |-> entries,
     current_entries |-> current_entries]

NotCalled == Locals("done", NoRun, <<>>, <<>>)

IdleRace == procs = [p \in Procs |-> NotCalled]

InitRace == procs \in [Procs -> {Locals("write_run", r, <<>>, <<>>) : r \in RunPool}]

\* What a step of process p leaves alone.
RaceFrame ==
    /\ UNCHANGED <<keep_last_n, op, ret, raised, saved, sessionStart, refreshed>>
    /\ UNCHANGED <<clientVars, evalVars, fnVars, scenarioVars>>

\* results_file.write_text(run_result.model_dump_json(indent=2))
WriteRunFile(p) ==
    /\ procs[p].pc = "write_run"
    /\ files' = [files EXCEPT ![RunIndexEntry(procs[p].run_result).path] =
                     ValidFile(procs[p].run_result)]
    /\ procs' = [procs EXCEPT ![p].pc = "load_index"]
    /\ UNCHANGED <<index, current, trend_file>>
    /\ RaceFrame

\* entries = self._load_index_entries()
LoadIndexEntries(p) ==
    /\ procs[p].pc = "load_index"
    /\ procs' = [procs EXCEPT ![p].pc = "write_index", ![p].entries = index]
    /\ UNCHANGED <<files, index, current, trend_file>>
    /\ RaceFrame

\* A slip that is no slip: the insert is made on the index as it is at the
\* time of the write (read, insert and write in one step, as under a lock).
MutWriteIndexUnderLock(p) ==
    /\ procs[p].pc = "write_index"
    /\ LET new_entry == RunIndexEntry(procs[p].run_result)
       IN /\ index' = RecentAfterInsert(index, new_entry)
          /\ procs' = [procs EXCEPT ![p].pc = "load_current",
                           ![p].entries = RecentAfterInsert(procs[p].entries, new_entry)]
    /\ UNCHANGED <<files, current, trend_file>>
    /\ RaceFrame

\* entries.insert(0, new_entry); entries = entries[:keep_last_n];
\* self._write_index_entries(entries)
WriteIndexEntries(p) ==
    /\ procs[p].pc = "write_index"
    /\ LET new_entry == RunIndexEntry(procs[p].run_result)
           entries == RecentAfterInsert(procs[p].entries, new_entry)
       IN /\ index' = entries
          /\ procs' = [procs EXCEPT ![p].pc = "load_current", ![p].entries = entries]
    /\ UNCHANGED <<files, current, trend_file>>
    /\ RaceFrame

\* current_entries = self._load_current_entries()
LoadCurrentEntries(p) ==
    /\ procs[p].pc = "load_current"
    /\ procs' = [procs EXCEPT ![p].pc = "write_current", ![p].current_entries = current]
    /\ UNCHANGED <<files, index, current, trend_file>>
    /\ RaceFrame

\* current_entries.insert(0, new_entry); self._write_current_entries(current_entries)
WriteCurrentEntries(p) ==
    /\ procs[p].pc = "write_current"
    /\ LET new_entry == RunIndexEntry(procs[p].run_result)
           current_entries == CurrentAfterInsert(procs[p].current_entries, new_entry)
       IN /\ current' = current_entries
          /\ procs' = [procs EXCEPT ![p].pc = "build_trends",
                           ![p].current_entries = current_entries]
    /\ UNCHANGED <<files, index, trend_file>>
    /\ RaceFrame

\* trend_summary = self._build_trends(entries); trend_file.write_text(...)
WriteTrendFile(p) ==
    /\ procs[p].pc = "build_trends"
    /\ LET built == BuildTrends(procs[p].entries, files)
       IN trend_file' = IF built.raised = NoError
                        THEN [exists |-> TRUE, summary |-> built.value]
                        ELSE trend_file
    /\ procs' = [procs EXCEPT ![p].pc = "done"]
    /\ UNCHANGED <<files, index, current>>
    /\ RaceFrame

\* ---------------------------------------------------------- backend gateway
\* The number of ask_question calls in one behaviour.
MaxAsks == 3

Sessions == {"s1", "s2"}

\* Questions, as sequences of characters.
Questions == {<<"q">>, <<" ", "q", "\n">>, <<"r">>}

Whitespace == {" ", "\t", "\n", "\r"}

RECURSIVE lstrip(_)
lstrip(q) == IF q # <<>> /\ Head(q) \in Whitespace THEN lstrip(Tail(q)) ELSE q

\* str.strip()
strip(q) == Reverse(lstrip(Reverse(lstrip(q))))

\* The payloads the backend answers with, and what a caller's mutation leaves.
Payloads == {"answer_A", "answer_B"}

Mutated == "mutated"

NoObject == 0

NoPayload == "no_payload"

\* A slip: the key keeps the question's surrounding whitespace.
MutCacheKeyUnstripped(session_id, question) == <<session_id, question>>

\* cache_key = (session_id, question.strip())
CacheKey(session_id, question) == <<session_id, strip(question)>>

\* Every key a cache lookup can use.
Keys == Sessions \X (Questions \cup {strip(q) : q \in Questions})

\* A slip: the object itself is used where a copy is meant.
MutNoCopy(h, obj) == [heap |-> h, obj |-> obj]

\* deepcopy: a new object with an equal value.
DeepCopy(h, obj) == [heap |-> Append(h, h[obj]), obj |-> Len(h) + 1]

NoCall == [key |-> <<"", <<>>>>, question |-> <<>>, use_cache |-> FALSE, hit |-> FALSE,
           http |-> "none", raised |-> NoError, value |-> NoPayload]

InitClient ==
    /\ heap = <<>>
    /\ ask_cache = [k \in Keys |-> NoObject]
    /\ handed = <<>>
    /\ c_op = "init"
    /\ c_call = NoCall
    /\ http_ok = [k \in Keys |-> 0]
    /\ http_calls = [k \in Keys |-> 0]
    /\ received = [k \in Keys |-> NoPayload]
    /\ all_cached = TRUE
    /\ asked = 0

\* ask_question answered from the cache. key is the claim's view of the call,
\* (session_id, stripped question), kept for the history.
AskHit(session_id, question, cache_key) ==
    LET copy == DeepCopy(heap, ask_cache[cache_key])
        key == <<session_id, strip(question)>>
    IN /\ heap' = copy.heap
       /\ handed' = Append(handed, [obj |-> copy.obj, key |-> key])
       /\ c_call' = [key |-> key, question |-> question,
                     use_cache |-> TRUE, hit |-> TRUE, http |-> "none", raised |-> NoError,
                     value |-> copy.heap[copy.obj]]
       /\ UNCHANGED <<ask_cache, http_ok, http_calls, received>>

\* ask_question when session.post or raise_for_status raises.
AskFailed(session_id, question, use_cache) ==
    LET key == <<session_id, strip(question)>>
    IN /\ c_call' = [key |-> key, question |-> question,
                     use_cache |-> use_cache, hit |-> FALSE, http |-> "failed",
                     raised |-> "HTTPError", value |-> NoPayload]
       /\ http_calls' = [http_calls EXCEPT ![key] = @ + 1]
       /\ UNCHANGED <<heap, ask_cache, handed, http_ok, received>>

\* ask_question when the backend answers with payload.
AskAnswered(session_id, question, use_cache, cache_key, payload) ==
    LET response_payload == Len(heap) + 1
        fresh == Append(heap, payload)
        copy == DeepCopy(fresh, response_payload)
        key == <<session_id, strip(question)>>
    IN /\ heap' = IF use_cache THEN copy.heap ELSE fresh
       /\ ask_cache' = IF use_cache THEN [ask_cache EXCEPT ![cache_key] = copy.obj]
                       ELSE ask_cache
       /\ received' = IF use_cache THEN [received EXCEPT ![key] = payload] ELSE received
       /\ handed' = Append(handed, [obj |-> response_payload, key |-> key])
       /\ c_call' = [key |-> key, question |-> question,
                     use_cache |-> use_cache, hit |-> FALSE, http |-> "ok",
                     raised |-> NoError, value |-> payload]
       /\ http_ok' = [http_ok EXCEPT ![key] = @ + 1]
       /\ http_calls' = [http_calls EXCEPT ![key] = @ + 1]

ask_question(session_id, question, use_cache) ==
    /\ asked < MaxAsks
    /\ LET cache_key == CacheKey(session_id, question)
       IN IF use_cache /\ ask_cache[cache_key] # NoObject
          THEN AskHit(session_id, question, cache_key)
          ELSE \/ AskFailed(session_id, question, use_cache)
               \/ \E payload \in Payloads :
                      AskAnswered(session_id, question, use_cache, cache_key, payload)
    /\ c_op' = "ask_question"
    /\ all_cached' = (all_cached /\ use_cache)
    /\ asked' = asked + 1
    /\ UNCHANGED <<storeVars, raceVars, evalVars, fnVars, scenarioVars>>

\* The caller changes a response dict it was handed.
CallerMutates(i) ==
    /\ heap[handed[i].obj] # Mutated
    /\ heap' = [heap EXCEPT ![handed[i].obj] = Mutated]
    /\ c_op' = "caller_mutates"
    /\ UNCHANGED <<ask_cache, handed, c_call, http_ok, http_calls, received, all_cached, asked>>
    /\ UNCHANGED <<storeVars, raceVars, evalVars, fnVars, scenarioVars>>

\* -------------------------------------------------------- evaluation runner
\* The number of rows of the largest dataset.
MaxRows == 2

METRIC_ORDER ==
    <<"contextual_precision", "contextual_recall", "contextual_relevancy",
      "answer_relevancy", "faithfulness", "completeness">>

ALIASES ==
    [k \in {"context_precision", "contextualprecision", "contextual_precision",
            "context_recall", "contextual_recall", "contextualrecall",
            "context_relevance", "contextual_relevancy", "contextualrelevancy",
            "answer_relevancy", "answerrelevancy", "faithfulness", "completeness"} |->
        CASE k \in {"context_precision", "contextualprecision", "contextual_precision"}
                 -> "contextual_precision"
          [] k \in {"context_recall", "contextual_recall", "contextualrecall"}
                 -> "contextual_recall"
          [] k \in {"context_relevance", "contextual_relevancy", "contextualrelevancy"}
                 -> "contextual_relevancy"
          [] k \in {"answer_relevancy", "answerrelevancy"} -> "answer_relevancy"
          [] OTHER -> k]

\* A str is a sequence of pieces whose concatenation it is: a piece is one
\* whitespace or separator character (" ", "-", ","), or a run of other
\* characters. Text(s) is the str s held in one piece.
Text(s) == <<s>>

\* str.lower() on one piece, for the pieces that occur with capitals.
lower(piece) ==
    CASE piece = "Layer2" -> "layer2"
      [] piece = "Context" -> "context"
      [] piece = "Precision" -> "precision"
      [] piece = "Faithfulness" -> "faithfulness"
      [] piece = "Metric" -> "metric"
      [] OTHER -> piece

str_lower(text) == [i \in 1..Len(text) |-> lower(text[i])]

\* str.replace(old, new) for a one-character old.
replace(text, old, new) == [i \in 1..Len(text) |-> IF text[i] = old THEN new ELSE text[i]]

\* The str itself.
RECURSIVE join(_)
join(text) == IF text = <<>> THEN "" ELSE Head(text) \o join(Tail(text))

\* normalize_metric_name
normalize_metric_name(name) ==
    LET key == join(replace(replace(str_lower(strip(name)), "-", "_"), " ", "_"))
    IN IF key \in DOMAIN ALIASES THEN ALIASES[key] ELSE key

LAYER1_METRICS == {"contextual_precision", "contextual_recall", "contextual_relevancy"}

LAYER2_METRICS == {"answer_relevancy", "faithfulness", "completeness"}

\* _ordered, of a collection of names given as a set.
_ordered(metrics) ==
    LET metric_set == {normalize_metric_name(m) : m \in metrics}
    IN SelectSeq(METRIC_ORDER, LAMBDA metric : metric \in metric_set)

\* A slip: the second layer is looked at only when the first is absent (elif).
MutLayerBaseFirstOnly(normalized_tags) ==
    IF "layer1" \in normalized_tags THEN LAYER1_METRICS
    ELSE IF "layer2" \in normalized_tags THEN LAYER2_METRICS
    ELSE Range(METRIC_ORDER)

\* base, once the tags were looked at (select_metrics_from_tags).
LayerBase(normalized_tags) ==
    LET base == (IF "layer1" \in normalized_tags THEN LAYER1_METRICS ELSE {})
                    \cup (IF "layer2" \in normalized_tags THEN LAYER2_METRICS ELSE {})
    IN IF base = {} THEN Range(METRIC_ORDER) ELSE base

\* select_metrics_from_tags; explicit_metrics None is the empty list.
select_metrics_from_tags(tags, explicit_metrics) ==
    IF explicit_metrics # <<>> THEN _ordered(Range(explicit_metrics))
    ELSE LET normalized_tags == {normalize_metric_name(tag) : tag \in tags}
             base == LayerBase(normalized_tags)
             metric_tags == {tag \in normalized_tags : tag \in Range(METRIC_ORDER)}
             selected == IF metric_tags # {} THEN base \cap metric_tags ELSE base
         IN _ordered({Text(m) : m \in selected})

\* ThresholdsConfig, in hundredths.
Thresholds ==
    [m \in Range(METRIC_ORDER) |->
        IF m \in {"answer_relevancy", "faithfulness"} THEN 75 ELSE 70]

\* metric_threshold
metric_threshold(metric_name) == Thresholds[normalize_metric_name(Text(metric_name))]

\* Optional values that are absent.
NoScore == -1

None == "None"

\* What metric.measure does: it raises, or leaves score and success on the metric.
Raises(message) == [raises |-> TRUE, message |-> message, score |-> NoScore, success |-> None]

Measured(score, success) == [raises |-> FALSE, message |-> None, score |-> score, success |-> success]

ScorerOutcomes ==
    {Raises("scorer failed"), Measured(80, None), Measured(60, None),
     Measured(NoScore, None), Measured(60, "True")}

MetricResult(metric_name, threshold, score, passed, error) ==
    [metric_name |-> metric_name, threshold |-> threshold, score |-> score,
     passed |-> passed, error |-> error]

\* The body of the loop over row_metrics for one metric: the try and its except.
ScoredResult(metric_name, outcome) ==
    LET canonical_name == normalize_metric_name(Text(metric_name))
        threshold == metric_threshold(canonical_name)
        passed == IF outcome.success = None /\ outcome.score # NoScore
                  THEN (IF outcome.score >= threshold THEN "True" ELSE "False")
                  ELSE outcome.success
    IN IF outcome.raises
       THEN MetricResult(canonical_name, threshold, NoScore, "False", outcome.message)
       ELSE MetricResult(canonical_name, threshold, outcome.score, passed, None)

key_candidates ==
    {"metric", "metrics", "metric_name", "metric_names", "target_metric", "target_metrics"}

\* The values of additional_metadata (Dict[str, Any]): None, a list of str, a str.
NoValue == [kind |-> "none", items |-> <<>>]

ListValue(items) == [kind |-> "list", items |-> items]

StrValue(text) == [kind |-> "str", items |-> <<text>>]

\* raw_value: the value of the first key that is a candidate once stripped and
\* lower-cased, or None.
RECURSIVE RawValue(_)
RawValue(metadata) ==
    IF metadata = <<>> THEN NoValue
    ELSE IF join(str_lower(strip(Head(metadata).key))) \in key_candidates
    THEN Head(metadata).value
    ELSE RawValue(Tail(metadata))

\* str.split(sep) for a one-character sep.
RECURSIVE split(_, _, _)
split(text, sep, part) ==
    IF text = <<>> THEN <<part>>
    ELSE IF Head(text) = sep THEN <<part>> \o split(Tail(text), sep, <<>>)
    ELSE split(Tail(text), sep, Append(part, Head(text)))

\* parts: the stripped items of a list, or the stripped pieces between commas.
Parts(raw_value) ==
    LET pieces == IF raw_value.kind = "list" THEN raw_value.items
                  ELSE split(raw_value.items[1], ",", <<>>)
    IN [i \in 1..Len(pieces) |-> strip(pieces[i])]

\* Attributes every pydantic BaseModel has besides its fields (some of them).
BaseModelAttrs == {"model_dump", "model_copy", "json", "copy"}

\* hasattr(self.config.thresholds, canonical)
hasattr_thresholds(canonical) == canonical \in (DOMAIN Thresholds) \cup BaseModelAttrs

\* What float(getattr(config.thresholds, name)) raises: nothing for a field,
\* TypeError for a method of the model, AttributeError for any other name.
ThresholdError(metric_name) ==
    LET canonical == normalize_metric_name(Text(metric_name))
    IN IF canonical \in DOMAIN Thresholds THEN NoError
       ELSE IF canonical \in BaseModelAttrs THEN "TypeError"
       ELSE "AttributeError"

\* The loop over parts: canonical names the thresholds object has an attribute
\* for, without repeats.
RECURSIVE MappedParts(_, _)
MappedParts(parts, mapped) ==
    IF parts = <<>> THEN mapped
    ELSE LET canonical == normalize_metric_name(Head(parts))
         IN IF join(Head(parts)) = "" \/ ~hasattr_thresholds(canonical)
                \/ canonical \in Range(mapped)
            THEN MappedParts(Tail(parts), mapped)
            ELSE MappedParts(Tail(parts), Append(mapped, canonical))

\* _extract_metrics_from_row
ExtractMetricsFromRow(row) ==
    IF row.additional_metadata = <<>> \/ RawValue(row.additional_metadata) = NoValue
    THEN <<>>
    ELSE MappedParts(Parts(RawValue(row.additional_metadata)), <<>>)

\* A slip: positional mapping without the comparison of the two lengths.
MutPositionalWithoutLengthCheck(row, selected_metrics, position, total_rows) ==
    IF e_config.metric_question_mapping_mode = "row" /\ ExtractMetricsFromRow(row) # <<>>
    THEN ExtractMetricsFromRow(row)
    ELSE IF e_config.metric_question_mapping_mode = "positional"
    THEN <<selected_metrics[Min(position + 1, Len(selected_metrics))]>>
    ELSE selected_metrics

\* _resolve_row_metrics
ResolveRowMetrics(row, selected_metrics, position, total_rows) ==
    IF e_config.metric_question_mapping_mode = "row" /\ ExtractMetricsFromRow(row) # <<>>
    THEN ExtractMetricsFromRow(row)
    ELSE IF e_config.metric_question_mapping_mode = "positional"
            /\ total_rows = Len(selected_metrics)
    THEN <<selected_metrics[position + 1]>>
    ELSE selected_metrics

\* ------------------------------------------------ calls of the pure functions
\* The longest explicit_metrics list.
MaxExplicit == 2

\* Marker names of a scenario (request.node.iter_markers()).
TagPool ==
    {Text("layer1"), Text("layer2"), Text("Layer2"), Text("smoke"),
     Text("faithfulness"), Text("context_precision")}

\* Names given as explicit metrics (scenario_state.explicit_metrics).
ExplicitPool ==
    {Text("faithfulness"), <<" ", "Context", "-", "Precision">>, Text("answer_relevancy"),
     Text("bleu")}

NotSelected == <<"not returned">>

InitSelect ==
    sel \in [tags : SUBSET TagPool,
             explicit_metrics : UNION {[1..n -> ExplicitPool] : n \in 0..MaxExplicit},
             returned : {FALSE},
             result : {NotSelected}]

IdleSelect ==
    sel = [tags |-> {}, explicit_metrics |-> <<>>, returned |-> TRUE, result |-> NotSelected]

\* One call of select_metrics_from_tags.
SelectMetrics ==
    /\ ~sel.returned
    /\ sel' = [sel EXCEPT !.returned = TRUE,
                          !.result = select_metrics_from_tags(sel.tags, sel.explicit_metrics)]
    /\ UNCHANGED <<res, trim, agg>>
    /\ UNCHANGED <<storeVars, raceVars, clientVars, evalVars, scenarioVars>>

\* The largest total_rows of a call of _resolve_row_metrics.
MaxTotal == 3

Row(additional_metadata) == [id |-> 1, additional_metadata |-> additional_metadata]

Meta(key, value) == [key |-> key, value |-> value]

\* Dataset rows by their additional_metadata.
RowPool ==
    {Row(<<>>),
     Row(<<Meta(Text("category"), StrValue(Text("general")))>>),
     Row(<<Meta(Text("metric"), StrValue(<<"faithfulness", ",", " ", "completeness">>))>>),
     Row(<<Meta(Text("category"), StrValue(Text("general"))),
           Meta(Text("Metric"),
                ListValue(<<Text("Faithfulness"), Text("faithfulness"),
                            <<" ", "context", "-", "precision">>>>))>>),
     Row(<<Meta(Text("metrics"), StrValue(Text("bleu")))>>),
     Row(<<Meta(Text("metrics"),
                StrValue(<<"bleu", ",", " ", ",", "contextual_recall">>))>>),
     Row(<<Meta(Text("target_metric"), StrValue(Text("model_dump")))>>),
     Row(<<Meta(Text("metric"), NoValue)>>),
     Row(<<Meta(Text("metric"), StrValue(<<>>)),
           Meta(Text("metrics"), StrValue(Text("faithfulness")))>>)}

\* selected_metrics as select_metrics_from_tags returns them.
ResolveSelected ==
    {<<"faithfulness">>, <<"contextual_precision", "faithfulness">>,
     <<"answer_relevancy", "faithfulness", "completeness">>}

MappingModes == {"all", "positional", "row"}

NotResolved == <<"not returned">>

InitResolve ==
    /\ res \in {r \in [row : RowPool, selected_metrics : ResolveSelected,
                        row_index : 0..(MaxTotal - 1), total_rows : 1..MaxTotal,
                        returned : {FALSE}, result : {NotResolved}] :
                    r.row_index < r.total_rows}
    /\ e_config \in [fresh_session_per_question : {FALSE},
                      metric_question_mapping_mode : MappingModes]

IdleResolve ==
    res = [row |-> Row(<<>>), selected_metrics |-> <<>>, row_index |-> 0, total_rows |-> 1,
           returned |-> TRUE, result |-> NotResolved]

\* One call of _resolve_row_metrics.
ResolveRow ==
    /\ ~res.returned
    /\ res' = [res EXCEPT !.returned = TRUE,
                          !.result = ResolveRowMetrics(res.row, res.selected_metrics,
                                                       res.row_index, res.total_rows)]
    /\ UNCHANGED <<sel, trim, agg>>
    /\ UNCHANGED <<storeVars, raceVars, clientVars, evalVars, scenarioVars>>

\* ------------------------------------------------- _trim_retrieval_context
\* The longest retrieval_context of a call.
MaxChunks == 3

\* The floors of evaluator.py:45 and evaluator.py:46.
MinChunksLimit == 1

MinCharsLimit == 100

\* A str of n characters; its i-th character is the digit (first + i) % 10.
Chars(n, first) == [i \in 1..n |-> (first + i) % 10]

\* The decimal digits of a natural number, as str(n) gives them.
RECURSIVE Digits(_)
Digits(n) == IF n < 10 THEN <<n>> ELSE Digits(n \div 10) \o <<n % 10>>

StrChunk(text) == [kind |-> "str", text |-> text, number |-> 0]

IntChunk(number) == [kind |-> "int", text |-> <<>>, number |-> number]

\* str(chunk)
str(chunk) == IF chunk.kind = "str" THEN chunk.text ELSE Digits(chunk.number)

\* The chunks a backend answer can carry: strs below, at and above the floor
\* of 100 characters, an empty str and a number.
ChunkPool ==
    {StrChunk(Chars(0, 0)), StrChunk(Chars(60, 0)), StrChunk(Chars(100, 3)),
     StrChunk(Chars(130, 7)), IntChunk(42)}

\* config.evaluation, the fields _trim_retrieval_context reads.
TrimConfigs ==
    [disable_context_trimming : BOOLEAN,
     max_retrieval_context_chunks : {0, 1, 2},
     max_retrieval_context_chars_per_chunk : {50, 100, 120}]

\* _trim_retrieval_context
TrimRetrievalContext(config, retrieval_context) ==
    IF config.disable_context_trimming
    THEN [j \in 1..Len(retrieval_context) |-> str(retrieval_context[j])]
    ELSE LET chunks_limit == Max(MinChunksLimit, config.max_retrieval_context_chunks)
             chars_limit == Max(MinCharsLimit, config.max_retrieval_context_chars_per_chunk)
             kept == SlicePrefix(retrieval_context, chunks_limit)
         IN [j \in 1..Len(kept) |-> SlicePrefix(str(kept[j]), chars_limit)]

NotTrimmed == <<"not returned">>

InitTrim ==
    trim \in [config : TrimConfigs,
              retrieval_context : UNION {[1..n -> ChunkPool] : n \in 0..MaxChunks},
              returned : {FALSE},
              result : {NotTrimmed}]

IdleTrim ==
    trim = [config |-> [disable_context_trimming |-> FALSE,
                        max_retrieval_context_chunks |-> 2,
                        max_retrieval_context_chars_per_chunk |-> 700],
            retrieval_context |-> <<>>, returned |-> TRUE, result |-> NotTrimmed]

\* One call of _trim_retrieval_context.
TrimContext ==
    /\ ~trim.returned
    /\ trim' = [trim EXCEPT !.returned = TRUE,
                            !.result = TrimRetrievalContext(trim.config,
                                                            trim.retrieval_context)]
    /\ UNCHANGED <<sel, res, agg>>
    /\ UNCHANGED <<storeVars, raceVars, clientVars, evalVars, scenarioVars>>

\* The scores of a list of MetricResults.
RECURSIVE Scores(_)
Scores(results) ==
    IF results = <<>> THEN <<>>
    ELSE (IF Head(results).score # NoScore THEN <<Head(results).score>> ELSE <<>>)
         \o Scores(Tail(results))

RECURSIVE CountPassed(_, _)
CountPassed(results, value) ==
    IF results = <<>> THEN 0
    ELSE (IF Head(results).passed = value THEN 1 ELSE 0) + CountPassed(Tail(results), value)

\* sorted(values)
RECURSIVE Sorted(_)
Sorted(values) ==
    IF values = <<>> THEN <<>>
    ELSE LET i == CHOOSE k \in 1..Len(values) : \A j \in 1..Len(values) : values[k] <= values[j]
         IN <<values[i]>> \o Sorted([k \in 1..Len(values) - 1 |->
                                        IF k < i THEN values[k] ELSE values[k + 1]])

\* A slip: the rank is rounded to the nearest integer instead of up.
MutPercentileNearestRank(values, pct) ==
    LET ordered == Sorted(values)
        rank == (pct * Len(ordered) + 50) \div 100
        idx == Min(Len(ordered) - 1, Max(0, rank - 1))
    IN ordered[idx + 1]

\* _percentile on a non-empty list: ceil(pct / 100 * n) - 1, kept within 0..n-1.
Percentile(values, pct) ==
    LET ordered == Sorted(values)
        rank == (pct * Len(ordered) + 99) \div 100
        idx == Min(Len(ordered) - 1, Max(0, rank - 1))
    IN ordered[idx + 1]

\* The MetricResults of one metric, question after question.
RECURSIVE ResultsOfMetric(_, _)
ResultsOfMetric(questions, canonical_name) ==
    IF questions = <<>> THEN <<>>
    ELSE SelectSeq(Head(questions).metrics, LAMBDA r : r.metric_name = canonical_name)
         \o ResultsOfMetric(Tail(questions), canonical_name)

\* A slip: count is taken over the results that carry a score.
MutCountOfScored(results) == Len(Scores(results))

\* count = len(metric_results)
CountOf(results) == Len(results)

\* A slip: the rate is left a fraction of one instead of a percentage.
MutPassRateAsFraction(pass_count, count) ==
    IF count # 0 THEN [num |-> pass_count, den |-> count] ELSE [num |-> 0, den |-> 1]

\* pass_rate = (pass_count / count * 100.0) if count else 0.0
PassRate(pass_count, count) ==
    IF count # 0 THEN [num |-> pass_count * 100, den |-> count] ELSE [num |-> 0, den |-> 1]

\* sum(values)
RECURSIVE Sum(_)
Sum(values) == IF values = <<>> THEN 0 ELSE Head(values) + Sum(Tail(values))

\* sum(x * x for x in values)
RECURSIVE SumOfSquares(_)
SumOfSquares(values) ==
    IF values = <<>> THEN 0 ELSE Head(values) * Head(values) + SumOfSquares(Tail(values))

\* One MetricAggregate of _aggregate. pass_rate is the fraction
\* pass_rate_num / pass_rate_den (0.0 for count = 0), avg_score the fraction
\* avg_score_num / avg_score_den, and std_dev is kept by its square, the
\* population variance std_dev_sq_num / std_dev_sq_den; None is NoScore.
MetricAggregate(questions, metric_name) ==
    LET canonical_name == normalize_metric_name(Text(metric_name))
        results == ResultsOfMetric(questions, canonical_name)
        scores == Scores(results)
        count == CountOf(results)
    IN [metric_name |-> canonical_name,
        threshold |-> metric_threshold(canonical_name),
        count |-> count,
        scored_count |-> Len(scores),
        pass_count |-> CountPassed(results, "True"),
        fail_count |-> CountPassed(results, "False"),
        pass_rate_num |-> PassRate(CountPassed(results, "True"), count).num,
        pass_rate_den |-> PassRate(CountPassed(results, "True"), count).den,
        avg_score_num |-> IF scores # <<>> THEN Sum(scores) ELSE NoScore,
        avg_score_den |-> IF scores # <<>> THEN Len(scores) ELSE NoScore,
        std_dev_sq_num |-> IF Len(scores) > 1
                           THEN Len(scores) * SumOfSquares(scores) - Sum(scores) * Sum(scores)
                           ELSE (IF Len(scores) = 1 THEN 0 ELSE NoScore),
        std_dev_sq_den |-> IF Len(scores) > 1 THEN Len(scores) * Len(scores)
                           ELSE (IF Len(scores) = 1 THEN 1 ELSE NoScore),
        min_score |-> IF scores # <<>> THEN Sorted(scores)[1] ELSE NoScore,
        max_score |-> IF scores # <<>> THEN Sorted(scores)[Len(scores)] ELSE NoScore,
        p50 |-> IF scores # <<>> THEN Percentile(scores, 50) ELSE NoScore,
        p90 |-> IF scores # <<>> THEN Percentile(scores, 90) ELSE NoScore,
        score_distribution |-> scores]

\* _aggregate
Aggregates(questions, selected_metrics) ==
    [k \in 1..Len(selected_metrics) |-> MetricAggregate(questions, selected_metrics[k])]

\* Session ids: none, the run-level one, the one the n-th upload returned.
NoSession == [from |-> "none", n |-> 0]

RunSession == [from |-> "run", n |-> 0]

UploadSession(n) == [from |-> "upload", n |-> n]

\* The dataset rows: one without metadata, one whose metadata names two metrics
\* in an order of its own.
PlainRow(id) == [id |-> id, additional_metadata |-> <<>>]

MappedRow(id) ==
    [id |-> id,
     additional_metadata |->
         <<[key |-> Text("category"), value |-> StrValue(Text("general"))],
           [key |-> Text("metric"),
            value |-> StrValue(<<"faithfulness", ",", " ", "contextual_precision">>)]>>]

\* A row whose metadata names a metric and a method of the thresholds model.
MethodRow(id) ==
    [id |-> id,
     additional_metadata |->
         <<[key |-> Text("target_metrics"),
            value |-> StrValue(<<"faithfulness", ",", "model_dump">>)]>>]

Datasets ==
    UNION {[1..n -> {"plain", "mapped"}] : n \in 0..MaxRows}

RowsOf(dataset) ==
    [i \in 1..Len(dataset) |->
        IF dataset[i] = "plain" THEN PlainRow(i)
        ELSE IF dataset[i] = "mapped" THEN MappedRow(i)
        ELSE MethodRow(i)]

\* Datasets with rows of all three kinds.
DatasetsWithMethodRows ==
    UNION {[1..n -> {"plain", "mapped", "method"}] : n \in 0..MaxRows}

\* selected_metrics of a direct call: what select_metrics_from_tags returns,
\* or a list with a name the thresholds have no field for.
SelectedByCaller ==
    {<<"contextual_precision">>, <<"contextual_precision", "faithfulness">>,
     <<"contextual_precision", "bleu">>}

\* Lists select_metrics_from_tags returns (canonical order, no repeats).
SelectedChoices ==
    {<<"contextual_precision">>, <<"contextual_precision", "faithfulness">>}

\* ------------------------------------------------------- calls of _aggregate
\* The longest question_results of a call.
MaxQuestions == 10

\* What the scorer of question k left behind, in three families of runs: all
\* scored; every fourth scorer raising; every third without a score and every
\* other third with success set by the scorer itself.
AggOutcome(k, v) ==
    LET score == (k * 37 + v * 13) % 101
    IN IF v = 1 /\ k % 4 = 0 THEN Raises("scorer failed")
       ELSE IF v = 2 /\ k % 3 = 0 THEN Measured(NoScore, None)
       ELSE IF v = 2 /\ k % 3 = 1 THEN Measured(score, "True")
       ELSE Measured(score, None)

\* The QuestionEvalResult of question k: contextual_precision always, and
\* faithfulness for the even questions.
AggQuestion(k, v) ==
    [question_id |-> k,
     metrics |-> <<ScoredResult("contextual_precision", AggOutcome(k, v))>>
                 \o (IF k % 2 = 0
                     THEN <<ScoredResult("faithfulness", AggOutcome(k + 1, v))>>
                     ELSE <<>>)]

\* question_results: questions first..last of one family.
AggQuestions(first, last, v) ==
    [k \in 1..(last - first + 1) |-> AggQuestion(first + k - 1, v)]

NotAggregated == <<>>

InitAgg ==
    \E first \in 1..MaxQuestions, last \in 0..MaxQuestions, v \in 0..2,
       selected \in SelectedChoices :
        /\ first <= last + 1
        /\ agg = [question_results |-> AggQuestions(first, last, v),
                  selected_metrics |-> selected,
                  returned |-> FALSE, result |-> NotAggregated]

IdleAgg ==
    agg = [question_results |-> <<>>, selected_metrics |-> <<>>,
           returned |-> TRUE, result |-> NotAggregated]

\* One call of _aggregate.
AggregateCall ==
    /\ ~agg.returned
    /\ agg' = [agg EXCEPT !.returned = TRUE,
                          !.result = Aggregates(agg.question_results, agg.selected_metrics)]
    /\ UNCHANGED <<sel, res, trim>>
    /\ UNCHANGED <<storeVars, raceVars, clientVars, evalVars, scenarioVars>>

SessionSetups ==
    {[fresh_session_per_question |-> FALSE, session_id |-> RunSession, uploaded_documents |-> <<>>],
     [fresh_session_per_question |-> FALSE, session_id |-> NoSession, uploaded_documents |-> <<>>],
     [fresh_session_per_question |-> TRUE, session_id |-> NoSession,
      uploaded_documents |-> <<"doc1", "doc2">>],
     [fresh_session_per_question |-> TRUE, session_id |-> RunSession, uploaded_documents |-> <<>>],
     [fresh_session_per_question |-> TRUE, session_id |-> NoSession, uploaded_documents |-> <<>>]}

NoResult == [returned |-> FALSE, dataset_size |-> 0, selected_metrics |-> <<>>,
             question_results |-> <<>>, metric_aggregates |-> <<>>]

\* The call of evaluate_dataset, up to rows = list(dataset_rows).
InitEval ==
    /\ \E setup \in SessionSetups, mode \in {"all", "positional", "row"},
          selected \in SelectedChoices, dataset \in Datasets :
           /\ e_config = [fresh_session_per_question |-> setup.fresh_session_per_question,
                          metric_question_mapping_mode |-> mode]
           /\ e_input = [rows |-> RowsOf(dataset), selected_metrics |-> selected,
                         session_id |-> setup.session_id,
                         uploaded_documents |-> setup.uploaded_documents]
           /\ pc = IF dataset = <<>> THEN "aggregate" ELSE "ask"
    /\ row_index = 0
    /\ row_metrics = <<>>
    /\ metric_results = <<>>
    /\ question_results = <<>>
    /\ e_result = NoResult
    /\ e_raised = NoError
    /\ uploads = 0
    /\ backend_log = <<>>
    /\ drawn_row = <<>>
    /\ drawn = <<>>

\* The call of evaluate_dataset with any selected_metrics and rows, a run-level
\* session and no fresh session per question.
InitEvalBuild ==
    /\ \E mode \in {"all", "positional", "row"}, selected \in SelectedByCaller,
          dataset \in DatasetsWithMethodRows :
           /\ e_config = [fresh_session_per_question |-> FALSE,
                          metric_question_mapping_mode |-> mode]
           /\ e_input = [rows |-> RowsOf(dataset), selected_metrics |-> selected,
                         session_id |-> RunSession, uploaded_documents |-> <<>>]
           /\ pc = IF dataset = <<>> THEN "aggregate" ELSE "ask"
    /\ row_index = 0
    /\ row_metrics = <<>>
    /\ metric_results = <<>>
    /\ question_results = <<>>
    /\ e_result = NoResult
    /\ e_raised = NoError
    /\ uploads = 0
    /\ backend_log = <<>>
    /\ drawn_row = <<>>
    /\ drawn = <<>>

\* A slip: a failed backend call ends the loop and the rows scored so far are
\* returned as the run.
MutRaiseReturnsPartial(exception) ==
    /\ pc' = "raised"
    /\ e_raised' = exception
    /\ e_result' = [returned |-> TRUE,
                      dataset_size |-> Len(e_input.rows),
                      selected_metrics |-> e_input.selected_metrics,
                      question_results |-> question_results,
                      metric_aggregates |-> <<>>]
    /\ UNCHANGED <<row_index, row_metrics, metric_results, question_results,
                   drawn_row, drawn>>

Raise(exception) ==
    /\ pc' = "raised"
    /\ e_raised' = exception
    /\ UNCHANGED <<row_index, row_metrics, metric_results, question_results, e_result,
                   drawn_row, drawn>>

NoDocument == "no document"

\* The backend calls made: upload_document(path) and ask_question(session_id, ...).
LogCall(log, call, session, ok) ==
    Append(log, [call |-> call, row |-> row_index, session |-> session, ok |-> ok,
                 document |-> IF call = "upload" THEN e_input.uploaded_documents[1]
                              ELSE NoDocument])

\* The head of the loop body: session resolution, ask_question, and the
\* resolution of the row's metrics. The backend answers or fails each call.
AskRow(upload_ok, ask_ok) ==
    /\ pc = "ask"
    /\ LET row == e_input.rows[row_index + 1]
           uploading == e_config.fresh_session_per_question
                            /\ e_input.uploaded_documents # <<>>
           row_session_id == IF uploading THEN UploadSession(uploads + 1)
                             ELSE e_input.session_id
           after_upload == IF uploading
                           THEN LogCall(backend_log, "upload", row_session_id, upload_ok)
                           ELSE backend_log
       IN IF uploading /\ ~upload_ok
          THEN /\ Raise("HTTPError")
               /\ backend_log' = after_upload
               /\ UNCHANGED uploads
          ELSE /\ uploads' = IF uploading THEN uploads + 1 ELSE uploads
               /\ IF row_session_id = NoSession
                  THEN /\ Raise("ValueError")
                       /\ backend_log' = after_upload
                  ELSE /\ backend_log' = LogCall(after_upload, "ask", row_session_id, ask_ok)
                       /\ IF ~ask_ok
                          THEN Raise("HTTPError")
                          ELSE /\ row_metrics' = ResolveRowMetrics(row, e_input.selected_metrics,
                                                     row_index, Len(e_input.rows))
                               /\ metric_results' = <<>>
                               /\ drawn_row' = <<>>
                               /\ pc' = "score"
                               /\ UNCHANGED <<row_index, question_results, e_result,
                                              e_raised, drawn>>
    /\ UNCHANGED <<e_config, e_input>>
    /\ UNCHANGED <<storeVars, raceVars, clientVars, fnVars, scenarioVars>>

\* A slip: an exception of measure leaves the loop over the row's metrics.
MutScoreAbortsRow(outcome) ==
    /\ pc = "score"
    /\ Len(metric_results) < Len(row_metrics)
    /\ ThresholdError(row_metrics[Len(metric_results) + 1]) = NoError
    /\ metric_results' = Append(metric_results,
           ScoredResult(row_metrics[Len(metric_results) + 1], outcome))
    /\ drawn_row' = Append(drawn_row, outcome)
    /\ row_metrics' = IF outcome.raises THEN SubSeq(row_metrics, 1, Len(metric_results) + 1)
                      ELSE row_metrics
    /\ UNCHANGED <<e_config, e_input, pc, row_index, question_results,
                   e_result, e_raised, uploads, backend_log, drawn>>
    /\ UNCHANGED <<storeVars, raceVars, clientVars, fnVars, scenarioVars>>

\* One turn of the loop over row_metrics: the scorer is built and measures.
ScoreMetric(outcome) ==
    /\ pc = "score"
    /\ Len(metric_results) < Len(row_metrics)
    /\ ThresholdError(row_metrics[Len(metric_results) + 1]) = NoError
    /\ metric_results' = Append(metric_results,
           ScoredResult(row_metrics[Len(metric_results) + 1], outcome))
    /\ drawn_row' = Append(drawn_row, outcome)
    /\ UNCHANGED <<e_config, e_input, pc, row_index, row_metrics, question_results,
                   e_result, e_raised, uploads, backend_log, drawn>>
    /\ UNCHANGED <<storeVars, raceVars, clientVars, fnVars, scenarioVars>>

\* A slip: the results of scorers that raised are left out of the row.
MutFinishRowDropsFailed ==
    /\ pc = "score"
    /\ Len(metric_results) = Len(row_metrics)
    /\ question_results' = Append(question_results,
           [question_id |-> e_input.rows[row_index + 1].id,
            metrics |-> SelectSeq(metric_results, LAMBDA r : r.error = None)])
    /\ drawn' = Append(drawn, drawn_row)
    /\ row_index' = row_index + 1
    /\ pc' = IF row_index + 1 < Len(e_input.rows) THEN "ask" ELSE "aggregate"
    /\ UNCHANGED <<e_config, e_input, row_metrics, metric_results, e_result,
                   e_raised, uploads, backend_log, drawn_row>>
    /\ UNCHANGED <<storeVars, raceVars, clientVars, fnVars, scenarioVars>>

\* The end of the loop body: the row's QuestionEvalResult is appended.
FinishRow ==
    /\ pc = "score"
    /\ Len(metric_results) = Len(row_metrics)
    /\ question_results' = Append(question_results,
           [question_id |-> e_input.rows[row_index + 1].id, metrics |-> metric_results])
    /\ drawn' = Append(drawn, drawn_row)
    /\ row_index' = row_index + 1
    /\ pc' = IF row_index + 1 < Len(e_input.rows) THEN "ask" ELSE "aggregate"
    /\ UNCHANGED <<e_config, e_input, row_metrics, metric_results, e_result,
                   e_raised, uploads, backend_log, drawn_row>>
    /\ UNCHANGED <<storeVars, raceVars, clientVars, fnVars, scenarioVars>>

\* After the loop: _aggregate, and the RunResult is returned.
ReturnRunResult ==
    /\ pc = "aggregate"
    /\ \A k \in 1..Len(e_input.selected_metrics) :
           ThresholdError(e_input.selected_metrics[k]) = NoError
    /\ e_result' = [returned |-> TRUE,
                      dataset_size |-> Len(e_input.rows),
                      selected_metrics |-> e_input.selected_metrics,
                      question_results |-> question_results,
                      metric_aggregates |->
                          Aggregates(question_results, e_input.selected_metrics)]
    /\ pc' = "done"
    /\ UNCHANGED <<e_config, e_input, row_index, row_metrics, metric_results,
                   question_results, e_raised, uploads, backend_log, drawn_row, drawn>>
    /\ UNCHANGED <<storeVars, raceVars, clientVars, fnVars, scenarioVars>>

\* metric_threshold or build_metric raising before the try of the loop over
\* row_metrics: for a name the thresholds have no field for, or because the
\* scorer's constructor fails.
ConstructFails(builder_ok) ==
    /\ pc = "score"
    /\ Len(metric_results) < Len(row_metrics)
    /\ LET lookup == ThresholdError(row_metrics[Len(metric_results) + 1])
       IN /\ lookup # NoError \/ ~builder_ok
          /\ Raise(IF lookup # NoError THEN lookup ELSE "BuildError")
    /\ UNCHANGED <<e_config, e_input, uploads, backend_log>>
    /\ UNCHANGED <<storeVars, raceVars, clientVars, fnVars, scenarioVars>>

\* metric_threshold raising in _aggregate, for the first selected metric the
\* thresholds have no field for.
AggregateFails ==
    /\ pc = "aggregate"
    /\ \E k \in 1..Len(e_input.selected_metrics) :
           /\ ThresholdError(e_input.selected_metrics[k]) # NoError
           /\ \A j \in 1..(k - 1) : ThresholdError(e_input.selected_metrics[j]) = NoError
           /\ Raise(ThresholdError(e_input.selected_metrics[k]))
    /\ UNCHANGED <<e_config, e_input, uploads, backend_log>>
    /\ UNCHANGED <<storeVars, raceVars, clientVars, fnVars, scenarioVars>>

\* No evaluate_dataset call in progress.
NotEvaluating ==
    /\ e_input = [rows |-> <<>>, selected_metrics |-> <<>>, session_id |-> NoSession,
                  uploaded_documents |-> <<>>]
    /\ pc = "done"
    /\ row_index = 0
    /\ row_metrics = <<>>
    /\ metric_results = <<>>
    /\ question_results = <<>>
    /\ e_result = NoResult
    /\ e_raised = NoError
    /\ uploads = 0
    /\ backend_log = <<>>
    /\ drawn_row = <<>>
    /\ drawn = <<>>

\* ------------------------------------------------------- scenario steps
\* The most steps of one scenario that evaluate or save.
MaxSteps == 3

\* The most "I evaluate all questions" steps of one scenario.
MaxEvaluations == 2

\* Marker names of the scenario: one pair selecting contextual_precision, one
\* pair selecting nothing.
ScenarioTags ==
    {{Text("layer1"), Text("context_precision")}, {Text("layer1"), Text("faithfulness")}}

\* What the given steps left in scenario_state: session_id and
\* uploaded_documents, next to the configured fresh_session_per_question.
ScenarioSetups ==
    {[fresh_session_per_question |-> FALSE, session_id |-> RunSession, uploaded_documents |-> <<>>],
     [fresh_session_per_question |-> FALSE, session_id |-> NoSession, uploaded_documents |-> <<>>],
     [fresh_session_per_question |-> TRUE, session_id |-> NoSession,
      uploaded_documents |-> <<"doc1", "doc2">>]}

\* scenario_state.dataset_rows
ScenarioDatasets == {[i \in 1..n |-> "plain"] : n \in 0..MaxRows}

\* The scorers of a scenario.
ScenarioOutcomes == {Raises("scorer failed"), Measured(80, None)}

\* ScenarioState() and the configuration of the session.
InitScenario ==
    /\ \E tags \in ScenarioTags, setup \in ScenarioSetups, dataset \in ScenarioDatasets :
           /\ scn = [tags |-> tags,
                     dataset_rows |-> RowsOf(dataset),
                     session_id |-> setup.session_id,
                     uploaded_documents |-> setup.uploaded_documents,
                     selected_metrics |-> <<>>,
                     run_result |-> NoRun,
                     run_dir |-> <<>>,
                     phase |-> "ready",
                     steps |-> 0,
                     evaluations |-> 0,
                     save_calls |-> <<>>]
           /\ e_config = [fresh_session_per_question |-> setup.fresh_session_per_question,
                          metric_question_mapping_mode |-> "all"]
    /\ NotEvaluating

IdleScenario ==
    scn = [tags |-> {}, dataset_rows |-> <<>>, session_id |-> NoSession,
           uploaded_documents |-> <<>>, selected_metrics |-> <<>>, run_result |-> NoRun,
           run_dir |-> <<>>, phase |-> "failed", steps |-> 0, evaluations |-> 0,
           save_calls |-> <<>>]

\* avg_score of a MetricAggregate in hundredths (rounded down), None as NoScore.
AvgScore(aggregate) ==
    IF aggregate.avg_score_num = NoScore THEN NoScore
    ELSE aggregate.avg_score_num \div aggregate.avg_score_den

\* The RunResult evaluate_dataset returns, as the store sees it; run_id, drawn
\* at the start of the call, is the number of the call.
RunResultOf(result, run_id) ==
    [run_id |-> run_id,
     metric_aggregates |->
         [k \in 1..Len(result.metric_aggregates) |->
             Aggregate(result.metric_aggregates[k].metric_name,
                       AvgScore(result.metric_aggregates[k]))]]

\* when_evaluate_all_questions up to the call of evaluate_dataset: the step
\* refuses an empty dataset, a missing session or document and an empty
\* selection with AssertionError.
StartEvaluate ==
    /\ scn.phase = "ready"
    /\ scn.steps < MaxSteps
    /\ scn.evaluations < MaxEvaluations
    /\ LET selected == select_metrics_from_tags(scn.tags, <<>>)
           refused == \/ scn.dataset_rows = <<>>
                      \/ ~e_config.fresh_session_per_question /\ scn.session_id = NoSession
                      \/ e_config.fresh_session_per_question /\ scn.uploaded_documents = <<>>
                      \/ selected = <<>>
       IN IF refused
          THEN /\ scn' = [scn EXCEPT !.phase = "failed", !.steps = @ + 1]
               /\ UNCHANGED evalVars
          ELSE /\ scn' = [scn EXCEPT !.phase = "evaluating", !.steps = @ + 1,
                                     !.evaluations = @ + 1,
                                     !.selected_metrics = selected]
               /\ e_input' = [rows |-> scn.dataset_rows, selected_metrics |-> selected,
                              session_id |-> scn.session_id,
                              uploaded_documents |-> scn.uploaded_documents]
               /\ pc' = "ask"
               /\ row_index' = 0
               /\ row_metrics' = <<>>
               /\ metric_results' = <<>>
               /\ question_results' = <<>>
               /\ e_result' = NoResult
               /\ e_raised' = NoError
               /\ uploads' = 0
               /\ backend_log' = <<>>
               /\ drawn_row' = <<>>
               /\ drawn' = <<>>
               /\ UNCHANGED e_config
    /\ UNCHANGED <<storeVars, raceVars, clientVars, fnVars>>

\* _persist_results_for_reporting, entered with scenario_state as in entered
\* and scenario_state.run_result = run_result: AssertionError without a run
\* result, nothing when run_dir is set, else save_run and run_dir is set. The
\* report writers that follow only read the store.
Persist(run_result, entered) ==
    IF run_result = NoRun
    THEN /\ scn' = [entered EXCEPT !.phase = "failed"]
         /\ UNCHANGED storeVars
    ELSE IF entered.run_dir # <<>>
    THEN /\ scn' = entered
         /\ UNCHANGED storeVars
    ELSE LET after == SavedStore(run_result)
         IN /\ files' = after.files
            /\ index' = after.index
            /\ current' = after.current
            /\ trend_file' = after.trend_file
            /\ raised' = after.raised
            /\ op' = "save_run"
            /\ refreshed' = 0
            /\ ret' = <<>>
            /\ saved' = Append(saved, run_result)
            /\ UNCHANGED <<keep_last_n, sessionStart>>
            /\ scn' = IF after.raised = NoError
                      THEN [entered EXCEPT !.run_dir = <<run_result.run_id>>,
                                           !.save_calls = Append(@, run_result.run_id)]
                      ELSE [entered EXCEPT !.phase = "failed",
                                           !.save_calls = Append(@, run_result.run_id)]

\* when_evaluate_all_questions after evaluate_dataset returned: the RunResult
\* goes into scenario_state and is persisted.
EvaluateReturns ==
    /\ scn.phase = "evaluating"
    /\ pc = "done"
    /\ LET run_result == RunResultOf(e_result, scn.evaluations)
       IN Persist(run_result, [scn EXCEPT !.run_result = run_result, !.phase = "ready"])
    /\ UNCHANGED <<evalVars, raceVars, clientVars, fnVars>>

\* evaluate_dataset raised: the exception leaves the step and the scenario ends.
EvaluateRaises ==
    /\ scn.phase = "evaluating"
    /\ pc = "raised"
    /\ scn' = [scn EXCEPT !.phase = "failed"]
    /\ UNCHANGED <<storeVars, evalVars, raceVars, clientVars, fnVars>>

\* then_save_results_for_reporting
SaveStep ==
    /\ scn.phase = "ready"
    /\ scn.steps < MaxSteps
    /\ Persist(scn.run_result, [scn EXCEPT !.steps = @ + 1])
    /\ UNCHANGED <<evalVars, raceVars, clientVars, fnVars>>

NextScenario ==
    \/ StartEvaluate
    \/ \E upload_ok \in BOOLEAN, ask_ok \in BOOLEAN : AskRow(upload_ok, ask_ok)
    \/ \E outcome \in ScenarioOutcomes : ScoreMetric(outcome)
    \/ FinishRow
    \/ ReturnRunResult
    \/ EvaluateReturns
    \/ EvaluateRaises
    \/ SaveStep

NextStore ==
    \/ \E run_result \in RunPool : save_run(run_result)
    \/ load_recent_run_results
    \/ load_current_session_run_results
    \/ reset_current_session
    \/ refresh_trends

NextEnv ==
    \/ NextStore
    \/ \E id \in RunIds : ExternalDelete(id)
    \/ \E id \in RunIds : ExternalCorrupt(id)

NextRace ==
    \/ \E p \in Procs : WriteRunFile(p)
    \/ \E p \in Procs : LoadIndexEntries(p)
    \/ \E p \in Procs : WriteIndexEntries(p)
    \/ \E p \in Procs : LoadCurrentEntries(p)
    \/ \E p \in Procs : WriteCurrentEntries(p)
    \/ \E p \in Procs : WriteTrendFile(p)

NextSelect == SelectMetrics

NextResolve == ResolveRow

NextTrim == TrimContext

NextAggregate == AggregateCall

NextClient ==
    \/ \E session_id \in Sessions, question \in Questions, use_cache \in BOOLEAN :
           ask_question(session_id, question, use_cache)
    \/ \E i \in 1..Len(handed) : CallerMutates(i)

NextEval ==
    \/ \E upload_ok \in BOOLEAN, ask_ok \in BOOLEAN : AskRow(upload_ok, ask_ok)
    \/ \E outcome \in ScorerOutcomes : ScoreMetric(outcome)
    \/ FinishRow
    \/ ReturnRunResult

\* The scorers of the runs whose scorer construction can fail.
BuildScorerOutcomes == {Raises("scorer failed"), Measured(80, None), Measured(60, None)}

NextEvalBuild ==
    \/ \E ask_ok \in BOOLEAN : AskRow(TRUE, ask_ok)
    \/ \E outcome \in BuildScorerOutcomes : ScoreMetric(outcome)
    \/ \E builder_ok \in BOOLEAN : ConstructFails(builder_ok)
    \/ FinishRow
    \/ ReturnRunResult
    \/ AggregateFails

\* Each specification starts the parts it does not move in one fixed state.
IdleStore ==
    /\ keep_last_n = 0
    /\ InitStore

IdleEval ==
    /\ e_config = [fresh_session_per_question |-> FALSE,
                   metric_question_mapping_mode |-> "all"]
    /\ NotEvaluating

IdleFn == IdleSelect /\ IdleResolve /\ IdleTrim /\ IdleAgg

Init == InitStore /\ IdleRace /\ InitClient /\ IdleScenario /\ IdleEval /\ IdleFn

InitRaceOnly == InitStore /\ InitRace /\ InitClient /\ IdleScenario /\ IdleEval /\ IdleFn

InitClientOnly == IdleStore /\ IdleRace /\ InitClient /\ IdleScenario /\ IdleEval /\ IdleFn

InitEvalOnly == IdleStore /\ IdleRace /\ InitClient /\ IdleScenario /\ InitEval /\ IdleFn

InitEvalBuildOnly == IdleStore /\ IdleRace /\ InitClient /\ IdleScenario /\ InitEvalBuild /\ IdleFn

InitScenarioOnly == InitStore /\ IdleRace /\ InitClient /\ InitScenario /\ IdleFn

InitSelectOnly ==
    /\ IdleStore /\ IdleRace /\ InitClient /\ IdleScenario /\ IdleEval
    /\ InitSelect /\ IdleResolve /\ IdleTrim /\ IdleAgg

InitResolveOnly ==
    /\ IdleStore /\ IdleRace /\ InitClient /\ IdleScenario /\ NotEvaluating
    /\ IdleSelect /\ InitResolve /\ IdleTrim /\ IdleAgg

InitTrimOnly ==
    /\ IdleStore /\ IdleRace /\ InitClient /\ IdleScenario /\ IdleEval
    /\ IdleSelect /\ IdleResolve /\ InitTrim /\ IdleAgg

InitAggOnly ==
    /\ IdleStore /\ IdleRace /\ InitClient /\ IdleScenario /\ IdleEval
    /\ IdleSelect /\ IdleResolve /\ IdleTrim /\ InitAgg

\* The store used by one process, its files touched by nothing else.
Spec == Init /\ [][NextStore]_vars

\* The store with run files removed or damaged from outside.
SpecEnv == Init /\ [][NextEnv]_vars

\* Two processes, each in one save_run call, on one (empty) base directory.
SpecRace == InitRaceOnly /\ [][NextRace]_vars

\* Calls of select_metrics_from_tags.
SpecSelect == InitSelectOnly /\ [][NextSelect]_vars

\* Calls of _resolve_row_metrics, in each mapping mode.
SpecResolve == InitResolveOnly /\ [][NextResolve]_vars

\* Calls of _trim_retrieval_context.
SpecTrim == InitTrimOnly /\ [][NextTrim]_vars

\* Calls of _aggregate.
SpecAggregate == InitAggOnly /\ [][NextAggregate]_vars

\* One scenario: its evaluate and save steps on one results store.
SpecScenario == InitScenarioOnly /\ [][NextScenario]_vars

\* One BackendClient and the caller of its ask_question.
SpecClient == InitClientOnly /\ [][NextClient]_vars

\* One call of evaluate_dataset.
SpecEval == InitEvalOnly /\ [][NextEval]_vars

\* One call of evaluate_dataset, by any caller, with scorers whose
\* construction can fail.
SpecEvalBuild == InitEvalBuildOnly /\ [][NextEvalBuild]_vars

\* ------------------------------------------------------ results store claims
\* The runs saved since the last reset_current_session, oldest first.
SessionRuns == SubSeq(saved, sessionStart + 1, Len(saved))

\* C1: the recent index holds min(k, keep_last_n) entries, those of the most
\* recently saved runs, newest first (k = number of save_run calls so far).
C1_RecentIndexIsLastSaved ==
    /\ Len(index) = Min(Len(saved), keep_last_n)
    /\ Len(index) <= keep_last_n
    /\ \A i \in 1..Len(index) : index[i] = RunIndexEntry(saved[Len(saved) + 1 - i])

C1_Witness ==
    /\ keep_last_n = 2
    /\ Len(saved) = 3
    /\ sessionStart > 0
    /\ op = "refresh_trends"
    /\ Len(index) = 2

\* C2: load_current_session_run_results returns every run saved since the last
\* reset (or since creation), newest first, whatever keep_last_n is, and the
\* empty list right after reset_current_session.
C2_CurrentSessionHoldsAllSaved ==
    /\ LoadRunResults(current, files) = [raised |-> NoError, value |-> Reverse(SessionRuns)]
    /\ op = "load_current_session_run_results" =>
           raised = NoError /\ ret = Reverse(SessionRuns)
    /\ op = "reset_current_session" => LoadRunResults(current, files).value = <<>>

C2_Witness ==
    /\ op = "load_current_session_run_results"
    /\ Len(ret) = 3
    /\ Len(index) < Len(ret)
    /\ \E i \in 1..Len(ret) : \A j \in 1..Len(index) : index[j].run_id # ret[i].run_id

\* C3: reset_current_session leaves the recent index, every run file and the
\* persisted trend summary as they were, so load_recent_run_results returns
\* the same list before and after it.
C3_ResetTouchesOnlyCurrent ==
    [][op' = "reset_current_session" =>
          /\ index' = index
          /\ files' = files
          /\ trend_file' = trend_file
          /\ current' = <<>>
          /\ LoadRunResults(index', files') = LoadRunResults(index, files)]_vars

C3_Witness ==
    /\ op = "reset_current_session"
    /\ Len(index) = 2
    /\ trend_file.exists /\ trend_file.summary.metrics # <<>>
    /\ current = <<>>
    /\ Len(saved) >= 2

\* The entries whose run file is there and parses.
ReadableEntries(entries) == SelectSeq(entries, LAMBDA e : files[e.path].state = "valid")

\* C9: a trend rebuild (save_run, refresh_trends) treats an entry whose run file
\* is missing or unparsable as if the run did not exist: nothing is raised and
\* the persisted summary is that of the other runs.
C9_TrendRebuildSkipsBadFiles ==
    op \in {"save_run", "refresh_trends"} =>
        /\ raised = NoError
        /\ trend_file = [exists |-> TRUE, summary |-> BuildTrends(ReadableEntries(index), files).value]

\* What the rebuild does: a missing file is skipped; an unparsable one makes it
\* raise and leaves the persisted summary as it was.
TrendRebuildAsCoded ==
    op \in {"save_run", "refresh_trends"} =>
        IF \E i \in 1..Len(index) : files[index[i].path].state = "unparsable"
        THEN raised = "JSONDecodeError"
        ELSE raised = NoError /\ trend_file = [exists |-> TRUE, summary |-> BuildTrends(ReadableEntries(index), files).value]

\* The files of the entries that exist, in index order.
ExistingRuns(entries) ==
    LET there == SelectSeq(entries, LAMBDA e : files[e.path].state # "missing")
    IN [i \in 1..Len(there) |-> files[there[i].path].payload]

LoadedFrom(entries) ==
    (\A i \in 1..Len(entries) : files[entries[i].path].state # "unparsable") =>
        /\ raised' = NoError
        /\ ret' = ExistingRuns(entries)

\* C10: both loads return, in index order, exactly the runs of the entries whose
\* run file exists; a missing file raises nothing and no index or file changes.
\* (Stated for index entries whose existing files parse.)
C10_LoadSkipsMissingEntries ==
    [][/\ op' = "load_recent_run_results" => LoadedFrom(index)
       /\ op' = "load_current_session_run_results" => LoadedFrom(current)
       /\ op' \in {"load_recent_run_results", "load_current_session_run_results"} =>
              index' = index /\ current' = current /\ files' = files]_vars

C10_Witness ==
    /\ op = "load_recent_run_results"
    /\ raised = NoError
    /\ Len(index) = 2
    /\ Len(ret) = 1
    /\ files[index[1].path].state = "missing"
    /\ ret[1].run_id = index[2].run_id

\* The runs of the recent index as the saves left it, oldest saved first.
RecentRuns == SubSeq(saved, Len(saved) - Min(Len(saved), keep_last_n) + 1, Len(saved))

\* One point per metric aggregate of the runs given, run after run.
RECURSIVE FlatPoints(_)
FlatPoints(runs) ==
    IF runs = <<>> THEN <<>>
    ELSE [j \in 1..Len(Head(runs).metric_aggregates) |->
             [metric_name |-> Head(runs).metric_aggregates[j].metric_name,
              run_id |-> Head(runs).run_id,
              avg_score |-> Head(runs).metric_aggregates[j].avg_score]]
         \o FlatPoints(Tail(runs))

PointsNamed(flat, m) ==
    LET mine == SelectSeq(flat, LAMBDA f : f.metric_name = m)
    IN [i \in 1..Len(mine) |-> [run_id |-> mine[i].run_id, avg_score |-> mine[i].avg_score]]

\* C11: the persisted TrendSummary holds, for each metric, one point per metric
\* aggregate of each run of the recent index and of no other run, oldest saved
\* first; the metrics are listed in increasing order of their names.
C11_TrendsOldestFirstSortedByName ==
    trend_file.exists =>
        LET metrics == trend_file.summary.metrics
            flat == FlatPoints(RecentRuns)
        IN /\ {metrics[k].metric_name : k \in 1..Len(metrics)} = {f.metric_name : f \in Range(flat)}
           /\ \A k \in 1..Len(metrics) : metrics[k].points = PointsNamed(flat, metrics[k].metric_name)
           /\ \A j, k \in 1..Len(metrics) :
                  j < k => NameRank(metrics[j].metric_name) < NameRank(metrics[k].metric_name)

C11_Witness ==
    /\ op = "save_run"
    /\ keep_last_n = 2
    /\ Len(saved) = 3
    /\ Len(trend_file.summary.metrics) >= 3
    /\ \E k \in 1..Len(trend_file.summary.metrics) :
           /\ Len(trend_file.summary.metrics[k].points) = 2
           /\ trend_file.summary.metrics[k].points[1].run_id
                  # trend_file.summary.metrics[k].points[2].run_id

\* C12: a refresh_trends call changes neither index nor any run file, and a
\* call that follows another with nothing in between returns the same
\* TrendSummary (or fails the same way) and leaves the trend file as it was.
C12_RefreshTrendsIdempotent ==
    [][op' = "refresh_trends" =>
          /\ index' = index
          /\ current' = current
          /\ files' = files
          /\ refreshed >= 1 =>
                 /\ ret' = ret
                 /\ raised' = raised
                 /\ trend_file' = trend_file]_vars

C12_Witness ==
    /\ op = "refresh_trends"
    /\ refreshed = 2
    /\ raised = NoError
    /\ Len(index) = 2
    /\ files[index[1].path].state = "missing"
    /\ Len(ret[1].metrics) >= 2

RaceDone == \A p \in Procs : procs[p].pc = "done"

EntryOf(p) == RunIndexEntry(procs[p].run_result)

OtherProc(p) == CHOOSE q \in Procs : q # p

DistinctRuns == \A p \in Procs : EntryOf(p) # EntryOf(OtherProc(p))

\* C13: save_run reads, changes and writes each index file in separate steps
\* and takes no lock, so with two processes saving different runs and
\* keep_last_n >= 2 an index file ends with both entries only when one process
\* loaded it after the other had written it; otherwise the entry of the first
\* writer is lost (the state C13_Witness). One of the two entries always stays.
C13_UnlockedSaveLosesUpdates ==
    (RaceDone /\ keep_last_n >= 2 /\ DistinctRuns) =>
        /\ (\A p \in Procs : EntryOf(p) \in Range(index))
               <=> (\E p \in Procs : EntryOf(OtherProc(p)) \in Range(procs[p].entries))
        /\ (\A p \in Procs : EntryOf(p) \in Range(current))
               <=> (\E p \in Procs : EntryOf(OtherProc(p)) \in Range(procs[p].current_entries))
        /\ \E p \in Procs : EntryOf(p) \in Range(index)
        /\ \E p \in Procs : EntryOf(p) \in Range(current)
        /\ \A p \in Procs : files[EntryOf(p).path] = ValidFile(procs[p].run_result)

C13_Witness ==
    /\ RaceDone
    /\ keep_last_n = 2
    /\ DistinctRuns
    /\ \E p \in Procs : EntryOf(p) \notin Range(index)
    /\ \A p \in Procs : files[EntryOf(p).path].state = "valid"

\* ---------------------------------------------------- backend gateway claims
\* C6: whatever the caller does to the responses it was handed, the cached
\* object keeps the payload received from the backend, and every cache hit
\* returns that payload.
C6_CacheHitReturnsReceived ==
    /\ \A k \in Keys : ask_cache[k] # NoObject => heap[ask_cache[k]] = received[k]
    /\ c_call.hit => c_call.value = received[c_call.key]

C6_Witness ==
    /\ c_op = "ask_question"
    /\ c_call.hit
    /\ \E i \in 1..Len(handed) - 1 :
           /\ handed[i].key = c_call.key
           /\ heap[handed[i].obj] = Mutated
    /\ \E i, j \in 1..Len(handed) - 1 :
           /\ i < j
           /\ handed[i].key = c_call.key /\ handed[j].key = c_call.key
           /\ heap[handed[j].obj] = Mutated

\* C7: while every call has use_cache = true, at most one successful HTTP ask
\* is made per (session_id, stripped question); a call whose key is cached makes
\* no HTTP call, and a failed HTTP call stores nothing in the cache.
C7_OneHttpAskPerKey ==
    [][(c_op' = "ask_question" /\ all_cached') =>
          /\ \A k \in Keys : http_ok'[k] <= 1
          /\ ask_cache[c_call'.key] # NoObject =>
                 http_calls' = http_calls /\ c_call'.http = "none"
          /\ c_call'.raised # NoError => ask_cache' = ask_cache]_vars

C7_Witness ==
    /\ c_op = "ask_question"
    /\ all_cached
    /\ c_call.hit
    /\ http_calls[c_call.key] = 2
    /\ http_ok[c_call.key] = 1
    /\ c_call.question # c_call.key[2]

\* ------------------------------------------------------ evaluation runner claims
\* The metrics evaluate_dataset resolves for row i (from 1) of its dataset.
RowMetricsOf(i) ==
    ResolveRowMetrics(e_input.rows[i], e_input.selected_metrics, i - 1, Len(e_input.rows))

\* What the claim gives for one (question, metric): a failed result for a scorer
\* that raised, and otherwise what the scorer left, as in a run without failures.
ClaimedResult(metric_name, outcome, r) ==
    /\ r.metric_name = metric_name
    /\ r.threshold = Thresholds[metric_name]
    /\ IF outcome.raises
       THEN r.score = NoScore /\ r.passed = "False" /\ r.error = outcome.message
       ELSE /\ r.score = outcome.score
            /\ r.error = None
            /\ r.passed = (IF outcome.success # None THEN outcome.success
                           ELSE IF outcome.score = NoScore THEN None
                           ELSE IF outcome.score >= Thresholds[metric_name] THEN "True"
                           ELSE "False")

\* C4: a scorer that raises for one (question, metric) yields a MetricResult
\* with no score, passed False and the message as error; the other metrics of
\* the row and the later rows are still scored, each with the result its own
\* scorer gave; evaluate_dataset never raises because of it and returns a
\* RunResult with every row.
C4_ScorerFailureIsIsolated ==
    /\ \A i \in 1..Len(question_results) :
           /\ Len(question_results[i].metrics) = Len(RowMetricsOf(i))
           /\ Len(drawn[i]) = Len(RowMetricsOf(i))
           /\ \A j \in 1..Len(RowMetricsOf(i)) :
                  ClaimedResult(RowMetricsOf(i)[j], drawn[i][j], question_results[i].metrics[j])
    /\ pc = "raised" =>
           /\ e_raised \in {"HTTPError", "ValueError"}
           /\ backend_log # <<>> => ~backend_log[Len(backend_log)].ok
    /\ pc = "score" =>
           /\ row_metrics = RowMetricsOf(row_index + 1)
           /\ Len(metric_results) <= Len(row_metrics)
           /\ \A j \in 1..Len(metric_results) :
                  ClaimedResult(row_metrics[j], drawn_row[j], metric_results[j])
    /\ pc = "done" =>
           /\ e_result.returned
           /\ Len(e_result.question_results) = Len(e_input.rows)

C4_Witness ==
    /\ pc = "done"
    /\ Len(e_input.rows) = 2
    /\ Len(drawn[1]) = 2
    /\ drawn[1][1].raises
    /\ e_result.question_results[1].metrics[1].error = "scorer failed"
    /\ e_result.question_results[1].metrics[2].passed = "True"
    /\ e_result.question_results[2].metrics[1].score = 60

\* The (question, position) pairs of the MetricResults of one metric in a run.
CellsOf(questions, metric_name) ==
    {c \in (1..Len(questions)) \X (1..Len(METRIC_ORDER)) :
        /\ c[2] <= Len(questions[c[1]].metrics)
        /\ questions[c[1]].metrics[c[2]].metric_name = metric_name}

\* C5: in every MetricAggregate of a returned RunResult, count is the number of
\* MetricResults of that metric in the run, scored_count <= count and
\* pass_count + fail_count <= count, the results with passed None counting
\* toward neither.
C5_AggregateCounts ==
    pc = "done" =>
        \A k \in 1..Len(e_result.metric_aggregates) :
            LET a == e_result.metric_aggregates[k]
                qs == e_result.question_results
                cells == CellsOf(qs, a.metric_name)
                undecided == {c \in cells : qs[c[1]].metrics[c[2]].passed = None}
            IN /\ a.count = Cardinality(cells)
               /\ a.scored_count <= a.count
               /\ a.pass_count + a.fail_count <= a.count
               /\ a.pass_count + a.fail_count = a.count - Cardinality(undecided)

C5_Witness ==
    /\ pc = "done"
    /\ \E k \in 1..Len(e_result.metric_aggregates) :
           LET a == e_result.metric_aggregates[k]
           IN /\ a.count = 2
              /\ a.scored_count = 1
              /\ a.pass_count = 1
              /\ a.fail_count = 0

\* The place of a metric in the canonical order.
OrderRank(m) == CHOOSE k \in 1..Len(METRIC_ORDER) : METRIC_ORDER[k] = m

\* C8: in a returned RunResult the question_results are in dataset-row order,
\* one per row, dataset_size is the number of rows, and the MetricResults of
\* each question are in canonical metric order, in every mapping mode.
C8_RowOrderAndCanonicalMetricOrder ==
    pc = "done" =>
        /\ e_result.dataset_size = Len(e_input.rows)
        /\ Len(e_result.question_results) = Len(e_input.rows)
        /\ \A i \in 1..Len(e_result.question_results) :
               LET q == e_result.question_results[i]
               IN /\ q.question_id = e_input.rows[i].id
                  /\ \A j, k \in 1..Len(q.metrics) :
                         j < k => OrderRank(q.metrics[j].metric_name)
                                      < OrderRank(q.metrics[k].metric_name)

\* The metric names of a question's MetricResults, in order.
NamesOf(metrics) == [j \in 1..Len(metrics) |-> metrics[j].metric_name]

\* What positional mapping gives row i (counted from 1).
PositionalMetrics(i) ==
    IF Len(e_input.rows) = Len(e_input.selected_metrics)
    THEN <<e_input.selected_metrics[i]>>
    ELSE e_input.selected_metrics

\* C18: in mode positional, with as many rows as selected metrics row i is
\* scored by selected_metrics[i] alone; with another number of rows every row
\* is scored by all selected metrics, and the run fails only where a backend
\* call failed or no session was there.
C18_PositionalMapping ==
    e_config.metric_question_mapping_mode = "positional" =>
        /\ \A i \in 1..Len(question_results) :
               NamesOf(question_results[i].metrics) = PositionalMetrics(i)
        /\ pc = "score" =>
               /\ row_metrics = PositionalMetrics(row_index + 1)
               /\ NamesOf(metric_results) = SubSeq(row_metrics, 1, Len(metric_results))
        /\ pc = "done" =>
               /\ Len(e_result.question_results) = Len(e_input.rows)
               /\ \A i \in 1..Len(e_input.rows) :
                      NamesOf(e_result.question_results[i].metrics) = PositionalMetrics(i)
        /\ pc = "raised" =>
               \/ e_raised = "ValueError" /\ e_input.session_id = NoSession
               \/ e_raised = "HTTPError" /\ ~backend_log[Len(backend_log)].ok

C18_Witness ==
    /\ e_config.metric_question_mapping_mode = "positional"
    /\ pc = "done"
    /\ Len(e_input.rows) = 2
    /\ e_input.rows[2].additional_metadata # <<>>
    /\ Len(e_input.selected_metrics) = 2
    /\ NamesOf(e_result.question_results[1].metrics) = <<"contextual_precision">>
    /\ NamesOf(e_result.question_results[2].metrics) = <<"faithfulness">>

\* The state in which the two lengths differ and every row got every metric.
PositionalFallsBackToAll ==
    /\ e_config.metric_question_mapping_mode = "positional"
    /\ pc = "done"
    /\ Len(e_input.rows) = 2
    /\ Len(e_input.selected_metrics) = 1
    /\ \A i \in 1..2 : NamesOf(e_result.question_results[i].metrics) = e_input.selected_metrics

\* The value of the first metadata key of the row of the call that is, in
\* lower case, one of the six candidate keys.
MetricValueOf(metadata) ==
    LET hits == SelectSeq(metadata, LAMBDA item : join(str_lower(strip(item.key))) \in key_candidates)
    IN IF hits = <<>> THEN NoValue ELSE hits[1].value

\* The canonical names a metadata value holds.
NamesIn(value) ==
    IF value = NoValue THEN {}
    ELSE {normalize_metric_name(part) : part \in {x \in Range(Parts(value)) : x # <<>>}}

\* C19: in mode row, a row with a metric key is given exactly the canonicalised
\* names of the key's value that are thresholds of the configuration, each
\* once; a row with no such key, or with no such name in the value, is given
\* all selected metrics.
C19_RowModeUsesRecognisedNames ==
    (res.returned /\ e_config.metric_question_mapping_mode = "row") =>
        LET recognised == NamesIn(MetricValueOf(res.row.additional_metadata))
                              \cap DOMAIN Thresholds
        IN IF recognised # {}
           THEN /\ Range(res.result) = recognised
                /\ Len(res.result) = Cardinality(recognised)
           ELSE res.result = res.selected_metrics

\* What the code does in mode row: a name counts as recognised when the
\* thresholds object has any attribute of that name.
RowModeAsCoded ==
    (res.returned /\ e_config.metric_question_mapping_mode = "row") =>
        LET recognised == {m \in NamesIn(MetricValueOf(res.row.additional_metadata)) :
                              hasattr_thresholds(m)}
        IN IF recognised # {}
           THEN /\ Range(res.result) = recognised
                /\ Len(res.result) = Cardinality(recognised)
           ELSE res.result = res.selected_metrics

\* The backend calls logged for row i (counted from 0).
CallsOfRow(i) == SelectSeq(backend_log, LAMBDA c : c.row = i)

SessionResolutionAsCoded ==
    LET uploading == e_config.fresh_session_per_question /\ e_input.uploaded_documents # <<>>
    IN /\ uploading =>
              \A k \in 1..Len(backend_log) :
                  backend_log[k].call = "ask" =>
                      /\ k > 1
                      /\ backend_log[k - 1] = [call |-> "upload", row |-> backend_log[k].row,
                                               session |-> backend_log[k].session, ok |-> TRUE,
                                               document |-> e_input.uploaded_documents[1]]
                      /\ Len(CallsOfRow(backend_log[k].row)) = 2
       /\ ~uploading =>
              \A k \in 1..Len(backend_log) :
                  /\ backend_log[k].call = "ask"
                  /\ backend_log[k].session = e_input.session_id
       /\ (pc = "raised" /\ e_raised = "ValueError") =>
              \A k \in 1..Len(backend_log) :
                  ~(backend_log[k].call = "ask" /\ backend_log[k].row = row_index)

\* --------------------------------------------------- metric selection claims
\* The tags of the call, normalised.
NormalizedTags == {normalize_metric_name(tag) : tag \in sel.tags}

\* The metrics the tags of the call name.
NamedByTags == NormalizedTags \cap Range(METRIC_ORDER)

\* C14: with no explicit metrics, every tag set with neither layer1 nor layer2
\* gives all six metrics in the canonical order.
C14_NoLayerTagSelectsAllSix ==
    (sel.returned /\ sel.explicit_metrics = <<>>
        /\ "layer1" \notin NormalizedTags /\ "layer2" \notin NormalizedTags) =>
        sel.result = METRIC_ORDER

\* C15: with no explicit metrics and no tag naming a metric, the result is the
\* three contextual metrics for layer1 without layer2, the three answer-level
\* metrics for layer2 without layer1, and all six for both, in canonical order
\* and without repeats.
C15_LayerTagsSelectTheirMetrics ==
    (sel.returned /\ sel.explicit_metrics = <<>> /\ NamedByTags = {}) =>
        /\ ("layer1" \in NormalizedTags /\ "layer2" \notin NormalizedTags) =>
               sel.result = <<"contextual_precision", "contextual_recall", "contextual_relevancy">>
        /\ ("layer2" \in NormalizedTags /\ "layer1" \notin NormalizedTags) =>
               sel.result = <<"answer_relevancy", "faithfulness", "completeness">>
        /\ ("layer1" \in NormalizedTags /\ "layer2" \in NormalizedTags) =>
               sel.result = <<"contextual_precision", "contextual_recall", "contextual_relevancy",
                              "answer_relevancy", "faithfulness", "completeness">>

C15_Witness ==
    /\ sel.returned
    /\ sel.explicit_metrics = <<>>
    /\ sel.tags = {Text("layer1"), Text("Layer2"), Text("smoke")}
    /\ Len(sel.result) = 6

\* C16: with no explicit metrics and tags that name metrics, the result is the
\* layer-derived base set cut to the named metrics, or the whole base set when
\* the cut is empty, so the result is never empty.
C16_NamedMetricsCutBaseWithFallback ==
    (sel.returned /\ sel.explicit_metrics = <<>> /\ NamedByTags # {}) =>
        LET base == LayerBase(NormalizedTags)
        IN /\ Range(sel.result) = IF base \cap NamedByTags # {} THEN base \cap NamedByTags ELSE base
           /\ sel.result # <<>>

\* C17: with explicit metrics the result holds exactly the canonicalised explicit
\* names (unknown names as they are), in the fixed order of the six metrics,
\* and is the same whatever the tags.
C17_ExplicitMetricsCanonicalisedTagsIgnored ==
    (sel.returned /\ sel.explicit_metrics # <<>>) =>
        /\ Range(sel.result) = {normalize_metric_name(m) : m \in Range(sel.explicit_metrics)}
        /\ \A j, k \in 1..Len(sel.result) :
               (j < k /\ sel.result[j] \in Range(METRIC_ORDER) /\ sel.result[k] \in Range(METRIC_ORDER))
                   => OrderRank(sel.result[j]) < OrderRank(sel.result[k])
        /\ sel.result = select_metrics_from_tags({}, sel.explicit_metrics)

\* What the code does with explicit metrics: the names that are not one of the
\* six metrics are dropped; the tags play no part.
ExplicitMetricsAsCoded ==
    (sel.returned /\ sel.explicit_metrics # <<>>) =>
        /\ Range(sel.result) =
               {normalize_metric_name(m) : m \in Range(sel.explicit_metrics)} \cap Range(METRIC_ORDER)
        /\ sel.result = select_metrics_from_tags({}, sel.explicit_metrics)

\* ------------------------------------------------ retrieval context claims
IsPrefix(a, b) == Len(a) <= Len(b) /\ a = SubSeq(b, 1, Len(a))

\* C21: with trimming disabled the result is every input chunk as a string in
\* its original order; with trimming enabled the result has at most
\* max_retrieval_context_chunks chunks, each of at most
\* max_retrieval_context_chars_per_chunk characters, and chunk j is a prefix of
\* input chunk j, for every configured pair of limits.
C21_TrimKeepsWithinConfiguredLimits ==
    trim.returned =>
        IF trim.config.disable_context_trimming
        THEN trim.result = [j \in 1..Len(trim.retrieval_context) |->
                                str(trim.retrieval_context[j])]
        ELSE /\ Len(trim.result) <= trim.config.max_retrieval_context_chunks
             /\ \A j \in 1..Len(trim.result) :
                    /\ Len(trim.result[j]) <= trim.config.max_retrieval_context_chars_per_chunk
                    /\ j <= Len(trim.retrieval_context)
                    /\ IsPrefix(trim.result[j], str(trim.retrieval_context[j]))

\* What the code keeps instead: the limits are the configured ones raised to
\* at least one chunk and at least 100 characters.
TrimmingAsCoded ==
    trim.returned =>
        IF trim.config.disable_context_trimming
        THEN trim.result = [j \in 1..Len(trim.retrieval_context) |->
                                str(trim.retrieval_context[j])]
        ELSE /\ Len(trim.result) <= Max(MinChunksLimit,
                                        trim.config.max_retrieval_context_chunks)
             /\ \A j \in 1..Len(trim.result) :
                    /\ Len(trim.result[j]) <=
                           Max(MinCharsLimit, trim.config.max_retrieval_context_chars_per_chunk)
                    /\ j <= Len(trim.retrieval_context)
                    /\ IsPrefix(trim.result[j], str(trim.retrieval_context[j]))

\* ------------------------------------------------------- aggregate claims
\* The scored MetricResults of metric m in the argument of the call, by
\* position <<question, result>>.
ScoredPositions(m) ==
    {pos \in UNION {{<<q, i>> : i \in 1..Len(agg.question_results[q].metrics)} :
                        q \in 1..Len(agg.question_results)} :
        /\ agg.question_results[pos[1]].metrics[pos[2]].metric_name = m
        /\ agg.question_results[pos[1]].metrics[pos[2]].score # NoScore}

ScoreAt(pos) == agg.question_results[pos[1]].metrics[pos[2]].score

\* The least integer not below pct / 100 * n.
CeilOfPct(pct, n) == CHOOSE c \in 0..n : 100 * c >= pct * n /\ 100 * (c - 1) < pct * n

\* v is the element at 0-based index idx of the scores in ascending order.
IsOrderStatistic(v, idx, positions) ==
    /\ \E pos \in positions : ScoreAt(pos) = v
    /\ Cardinality({pos \in positions : ScoreAt(pos) < v}) <= idx
    /\ Cardinality({pos \in positions : ScoreAt(pos) <= v}) > idx

\* C22: with n scores, p50 and p90 are the sorted scores at index
\* clamp(ceil(p/100 * n) - 1, 0, n - 1), so min <= p50 <= p90 <= max and for
\* n = 1 both equal the score; with n = 0 avg, min, max, std_dev, p50 and p90
\* are None and, when count is 0 too, pass_rate is 0.0.
C22_PercentilesByNearestRank ==
    agg.returned =>
        \A k \in 1..Len(agg.result) :
            LET a == agg.result[k]
                positions == ScoredPositions(a.metric_name)
                n == Cardinality(positions)
                idx(pct) == Min(n - 1, Max(0, CeilOfPct(pct, n) - 1))
            IN /\ n > 0 =>
                    /\ IsOrderStatistic(a.p50, idx(50), positions)
                    /\ IsOrderStatistic(a.p90, idx(90), positions)
                    /\ a.min_score <= a.p50 /\ a.p50 <= a.p90 /\ a.p90 <= a.max_score
                    /\ \A pos \in positions : a.min_score <= ScoreAt(pos)
                                              /\ ScoreAt(pos) <= a.max_score
               /\ n = 1 => \A pos \in positions : a.p50 = ScoreAt(pos) /\ a.p90 = ScoreAt(pos)
               /\ n = 0 =>
                    /\ a.avg_score_num = NoScore /\ a.avg_score_den = NoScore
                    /\ a.min_score = NoScore /\ a.max_score = NoScore
                    /\ a.std_dev_sq_num = NoScore /\ a.std_dev_sq_den = NoScore
                    /\ a.p50 = NoScore /\ a.p90 = NoScore
                    /\ a.count = 0 => a.pass_rate_num = 0 /\ a.pass_rate_den = 1

\* A call over ten or more scores where p90 is below the maximum and p50 lies
\* strictly between the minimum and p90.
C22_Witness ==
    /\ agg.returned
    /\ \E k \in 1..Len(agg.result) :
           /\ agg.result[k].scored_count >= 10
           /\ agg.result[k].min_score < agg.result[k].p50
           /\ agg.result[k].p50 < agg.result[k].p90
           /\ agg.result[k].p90 < agg.result[k].max_score

\* A metric with exactly one result, and that one scored.
SingleScoreAggregate ==
    /\ agg.returned
    /\ \E k \in 1..Len(agg.result) :
           agg.result[k].scored_count = 1 /\ agg.result[k].count = 1

\* A metric that was selected and has results, none of them scored.
UnscoredAggregate ==
    /\ agg.returned
    /\ \E k \in 1..Len(agg.result) :
           agg.result[k].scored_count = 0 /\ agg.result[k].count > 0

\* A metric that was selected and has no result at all.
EmptyAggregate ==
    /\ agg.returned
    /\ \E k \in 1..Len(agg.result) : agg.result[k].count = 0

\* The MetricResults of metric m in the argument of the call, by position.
ResultPositions(m) ==
    {pos \in UNION {{<<q, i>> : i \in 1..Len(agg.question_results[q].metrics)} :
                        q \in 1..Len(agg.question_results)} :
        agg.question_results[pos[1]].metrics[pos[2]].metric_name = m}

ResultAt(pos) == agg.question_results[pos[1]].metrics[pos[2]]

\* A result recorded by the except branch of the scoring loop.
FromException(r) == r.score = NoScore /\ r.passed = "False" /\ r.error # None

\* question_results with the result at pos replaced by r.
WithResultAt(pos, r) ==
    [agg.question_results EXCEPT ![pos[1]].metrics[pos[2]] = r]

\* C29: pass_rate is computed over count, all results of the metric, not over
\* scored_count: it lies in 0..100, it is 100 exactly when count > 0 and
\* pass_count = count, and a result recorded from a scoring exception makes
\* fail_count one higher and pass_rate lower than a passing result in its
\* place would.
C29_PassRateOverCount ==
    agg.returned =>
        \A k \in 1..Len(agg.result) :
            LET a == agg.result[k]
                positions == ResultPositions(a.metric_name)
                count == Cardinality(positions)
                pass_count == Cardinality({pos \in positions : ResultAt(pos).passed = "True"})
                fail_count == Cardinality({pos \in positions : ResultAt(pos).passed = "False"})
            IN /\ a.count = count /\ a.pass_count = pass_count /\ a.fail_count = fail_count
               /\ a.pass_rate_den > 0
               /\ count > 0 => a.pass_rate_num * count = 100 * pass_count * a.pass_rate_den
               /\ 0 <= a.pass_rate_num /\ a.pass_rate_num <= 100 * a.pass_rate_den
               /\ (a.pass_rate_num = 100 * a.pass_rate_den) <=> (count > 0 /\ pass_count = count)
               /\ \A pos \in positions :
                      FromException(ResultAt(pos)) =>
                          LET passing == MetricResult(a.metric_name, a.threshold, 100, "True", None)
                              b == MetricAggregate(WithResultAt(pos, passing), a.metric_name)
                          IN /\ a.fail_count = b.fail_count + 1
                             /\ a.pass_rate_num * b.pass_rate_den
                                    < b.pass_rate_num * a.pass_rate_den

\* A metric with passing results, a result from a scoring exception and so
\* fewer scores than results.
C29_Witness ==
    /\ agg.returned
    /\ \E k \in 1..Len(agg.result) :
           /\ agg.result[k].pass_count > 0
           /\ agg.result[k].scored_count < agg.result[k].count
           /\ \E pos \in ResultPositions(agg.result[k].metric_name) :
                  FromException(ResultAt(pos))

\* A metric all of whose results passed.
AllPassedAggregate ==
    /\ agg.returned
    /\ \E k \in 1..Len(agg.result) :
           agg.result[k].count > 1 /\ agg.result[k].pass_count = agg.result[k].count

\* A metric whose only results come from scoring exceptions: pass_rate is 0,
\* as it would be without them.
OnlyExceptionsAggregate ==
    /\ agg.returned
    /\ \E k \in 1..Len(agg.result) :
           /\ agg.result[k].count > 0
           /\ \A pos \in ResultPositions(agg.result[k].metric_name) :
                  FromException(ResultAt(pos))

\* ------------------------------------------------ scorer construction claims
\* C24: in a completed run every row has one MetricResult per metric resolved
\* for the row, in the order of the resolved metrics, whether its scorer
\* measured or raised.
C24_OneResultPerResolvedMetric ==
    pc = "done" =>
        /\ Len(e_result.question_results) = Len(e_input.rows)
        /\ \A i \in 1..Len(e_input.rows) :
               LET resolved == RowMetricsOf(i)
                   metrics == e_result.question_results[i].metrics
               IN /\ Len(metrics) = Len(resolved)
                  /\ \A j \in 1..Len(resolved) :
                         metrics[j].metric_name = normalize_metric_name(Text(resolved[j]))

\* A completed run in row mode whose two rows resolve to different numbers of
\* metrics, with a scorer that raised.
C24_Witness ==
    /\ pc = "done"
    /\ Len(e_input.rows) = 2
    /\ Len(e_result.question_results[1].metrics) = 2
    /\ Len(e_result.question_results[2].metrics) = 1
    /\ e_result.question_results[1].metrics[1].error # None

\* C25: a failure to look up a metric's threshold or to construct its scorer
\* is recorded as a failed MetricResult like an exception of measure, and the
\* remaining metrics and rows are still evaluated: evaluate_dataset raises only
\* for a failed backend call or a missing session.
C25_ConstructionFailureIsIsolated ==
    /\ pc = "raised" => e_raised \in {"HTTPError", "ValueError"}
    /\ pc = "done" =>
           \A i \in 1..Len(e_input.rows) :
               Len(e_result.question_results[i].metrics) = Len(RowMetricsOf(i))

\* What the code does instead: the lookup and the construction stand before the
\* try, so their exception leaves evaluate_dataset and no RunResult is returned.
ConstructionFailureAbortsRun ==
    /\ pc = "raised" =>
           /\ ~e_result.returned
           /\ e_raised \in {"HTTPError", "TypeError", "AttributeError", "BuildError"}
           /\ e_raised \in {"TypeError", "AttributeError"} =>
                  \/ /\ Len(metric_results) < Len(row_metrics)
                     /\ ThresholdError(row_metrics[Len(metric_results) + 1]) = e_raised
                  \/ \E k \in 1..Len(e_input.selected_metrics) :
                         ThresholdError(e_input.selected_metrics[k]) = e_raised
    /\ pc = "done" =>
           \A i \in 1..Len(e_input.rows) :
               \A j \in 1..Len(RowMetricsOf(i)) :
                   ThresholdError(RowMetricsOf(i)[j]) = NoError

\* A run aborted at the second metric of its first row, the first one scored.
AbortedByMethodName ==
    /\ pc = "raised"
    /\ e_raised = "TypeError"
    /\ Len(metric_results) = 1
    /\ row_index = 0

\* ------------------------------------------------ aggregate coverage claims
RECURSIVE SumOfCounts(_)
SumOfCounts(aggregates) ==
    IF aggregates = <<>> THEN 0 ELSE Head(aggregates).count + SumOfCounts(Tail(aggregates))

RECURSIVE TotalResults(_)
TotalResults(questions) ==
    IF questions = <<>> THEN 0 ELSE Len(Head(questions).metrics) + TotalResults(Tail(questions))

\* C27: in a returned RunResult every MetricResult is counted by exactly one
\* MetricAggregate: the counts of the aggregates add up to the number of
\* MetricResults of the run, and no row is scored by a metric that is not
\* among the selected metrics.
C27_EveryResultIsAggregated ==
    pc = "done" =>
        /\ SumOfCounts(e_result.metric_aggregates) = TotalResults(e_result.question_results)
        /\ \A i \in 1..Len(e_result.question_results) :
               \A j \in 1..Len(e_result.question_results[i].metrics) :
                   e_result.question_results[i].metrics[j].metric_name
                       \in {normalize_metric_name(Text(m)) : m \in Range(e_result.selected_metrics)}

\* What the code gives: each aggregate counts the results of its own metric, and
\* the results of metrics a row's metadata names outside selected_metrics are
\* counted by none; outside mode row every result is counted once.
ResultsAggregatedAsCoded ==
    pc = "done" =>
        LET selected == {normalize_metric_name(Text(m)) : m \in Range(e_result.selected_metrics)}
            unselected == {c \in UNION {{<<i, j>> : j \in 1..Len(e_result.question_results[i].metrics)} :
                                           i \in 1..Len(e_result.question_results)} :
                              e_result.question_results[c[1]].metrics[c[2]].metric_name
                                  \notin selected}
        IN /\ SumOfCounts(e_result.metric_aggregates) + Cardinality(unselected)
                  = TotalResults(e_result.question_results)
           /\ e_config.metric_question_mapping_mode # "row" => unselected = {}

\* A run in mode row whose row is scored by faithfulness, which was not selected.
ScoredOutsideSelection ==
    /\ pc = "done"
    /\ e_config.metric_question_mapping_mode = "row"
    /\ e_result.selected_metrics = <<"contextual_precision">>
    /\ \E i \in 1..Len(e_result.question_results) :
           \E j \in 1..Len(e_result.question_results[i].metrics) :
               e_result.question_results[i].metrics[j].metric_name = "faithfulness"

\* ------------------------------------------------------- run file claims
\* C28: with run files touched by the store only, after any sequence of
\* save_run, reset_current_session and refresh_trends every entry of the recent
\* index and of the current-session index points to a run file that exists, and
\* no operation of the store removes a run file, not even that of a run cut out
\* of the recent index.
C28_IndexEntriesPointToRunFiles ==
    /\ [](\A e \in Range(index) \cup Range(current) : files[e.path].state # "missing")
    /\ [][\A id \in RunIds : files[id].state # "missing" => files'[id] # MissingFile]_vars

\* Three saves with keep_last_n = 1 and a reset after the second: the run file
\* of the first run is there though no index names it any more.
C28_Witness ==
    /\ Len(saved) = 3
    /\ keep_last_n = 1
    /\ sessionStart = 2
    /\ Len(index) = 1 /\ Len(current) = 1
    /\ saved[1].run_id # saved[2].run_id /\ saved[1].run_id # saved[3].run_id
    /\ files[saved[1].run_id].state = "valid"
    /\ op = "refresh_trends"

\* Inside save_run the run file is written first: an index never names a run
\* whose file has not been written yet.
RunFileWrittenBeforeIndices ==
    /\ \A e \in Range(index) \cup Range(current) : files[e.path].state = "valid"
    /\ \A p \in Procs :
           procs[p].pc \notin {"write_run", "done"} =>
               files[EntryOf(p).path].state = "valid"

\* ------------------------------------------------------- run id claims
NoRepeatedRunId(entries) ==
    \A i \in 1..Len(entries) : \A j \in 1..Len(entries) :
        entries[i].run_id = entries[j].run_id => i = j

\* C30: after any sequence of save_run calls, also calls that save a RunResult
\* whose run_id was saved before, neither the recent index nor the
\* current-session index has two entries with the same run_id, and each
\* MetricTrend has at most one TrendPoint per run_id.
C30_OneEntryPerRunId ==
    /\ NoRepeatedRunId(index)
    /\ NoRepeatedRunId(current)
    /\ trend_file.exists =>
           \A k \in 1..Len(trend_file.summary.metrics) :
               NoRepeatedRunId(trend_file.summary.metrics[k].points)

\* What the code keeps: one entry per save_run call, so as many entries of a
\* run_id as calls that saved it (the recent index cut to keep_last_n).
EntriesPerSaveAsCoded ==
    /\ Len(index) = Min(Len(saved), keep_last_n)
    /\ Len(current) = Len(saved) - sessionStart
    /\ \A i \in 1..Len(index) : index[i].run_id = saved[Len(saved) + 1 - i].run_id
    /\ \A i \in 1..Len(current) : current[i].run_id = saved[Len(saved) + 1 - i].run_id

\* The same RunResult saved twice: two entries and two trend points of its run_id.
SavedTwice ==
    /\ Len(saved) = 2
    /\ saved[1] = saved[2]
    /\ Len(index) = 2 /\ index[1].run_id = index[2].run_id
    /\ Len(current) = 2
    /\ trend_file.exists
    /\ \E k \in 1..Len(trend_file.summary.metrics) :
           Len(trend_file.summary.metrics[k].points) = 2

\* ------------------------------------------------------- scenario claims
\* What the results store keeps on disk.
StoreOnDisk == <<files, index, current, trend_file>>

\* C23: when an upload or ask call fails for row k, evaluate_dataset raises: no
\* RunResult is returned, the results of the rows before k are dropped with it,
\* no backend call is made for a row after k, and the results store (run files,
\* both indices, trend file) stays as it was, persistence coming only after
\* evaluate_dataset has returned.
C23_BackendFailureAbortsRunUnsaved ==
    /\ [](pc = "raised" =>
            /\ e_raised \in {"HTTPError", "ValueError"}
            /\ ~e_result.returned
            /\ \A n \in 1..Len(backend_log) : backend_log[n].row <= row_index
            /\ e_raised = "HTTPError" =>
                   /\ ~backend_log[Len(backend_log)].ok
                   /\ backend_log[Len(backend_log)].row = row_index
                   /\ \A n \in 1..(Len(backend_log) - 1) : backend_log[n].ok
            /\ scn.run_result = NoRun \/ scn.run_result.run_id # scn.evaluations)
    /\ [][(scn.phase = "evaluating" \/ scn.phase = "failed") /\ pc # "done"
              => StoreOnDisk' = StoreOnDisk /\ scn'.run_result = scn.run_result]_vars

\* The second evaluation of a scenario failed at its second row, the first row
\* scored; the run of the first evaluation is all the store holds.
C23_Witness ==
    /\ scn.phase = "failed"
    /\ pc = "raised"
    /\ e_raised = "HTTPError"
    /\ scn.evaluations = 2
    /\ row_index = 1
    /\ Len(question_results) = 1
    /\ Len(e_input.rows) = 2
    /\ Len(saved) = 1 /\ saved[1].run_id = 1
    /\ Len(current) = 1

\* A run that failed at its first row, the second row never asked.
FailedAtFirstRow ==
    /\ pc = "raised"
    /\ row_index = 0
    /\ Len(e_input.rows) = 2
    /\ \A n \in 1..Len(backend_log) : backend_log[n].row = 0

CountOfRunId(entries, run_id) ==
    Cardinality({n \in 1..Len(entries) : entries[n].run_id = run_id})

CallsSaving(run_id) ==
    Cardinality({n \in 1..Len(scn.save_calls) : scn.save_calls[n] = run_id})

\* C26: persisting is idempotent: once a scenario has a RunResult and its
\* evaluate and save steps have called _persist_results_for_reporting, in
\* whatever order and number, save_run has been called exactly once for the
\* scenario's RunResult, and the run has exactly one entry in each index.
C26_PersistSavesRunExactlyOnce ==
    (scn.phase = "ready" /\ scn.run_result # NoRun) =>
        /\ CallsSaving(scn.run_result.run_id) = 1
        /\ CountOfRunId(index, scn.run_result.run_id) = 1
        /\ CountOfRunId(current, scn.run_result.run_id) = 1

\* What the code does: the guard is on run_dir, which the first save sets for
\* the whole scenario, so save_run is called at most once per scenario, for the
\* RunResult of the first evaluation; the RunResult of a later evaluation
\* replaces scenario_state.run_result and is never saved. The saved run has one
\* entry in the current-session index and, with keep_last_n >= 1, in the recent
\* index.
PersistSavesFirstRunOnly ==
    /\ Len(scn.save_calls) <= 1
    /\ (scn.phase = "ready" /\ scn.run_result # NoRun) =>
           /\ scn.save_calls = <<1>>
           /\ scn.run_dir = <<1>>
           /\ CountOfRunId(current, 1) = 1
           /\ CountOfRunId(index, 1) = Min(1, keep_last_n)
           /\ scn.run_result.run_id # 1 =>
                  /\ CountOfRunId(current, scn.run_result.run_id) = 0
                  /\ files[scn.run_result.run_id].state = "missing"

\* Two evaluate steps and a save step: the RunResult of the second evaluation
\* is in scenario_state and nowhere in the store.
SecondRunNeverSaved ==
    /\ scn.phase = "ready"
    /\ scn.steps = 3
    /\ scn.evaluations = 2
    /\ scn.run_result.run_id = 2
    /\ scn.save_calls = <<1>>
    /\ keep_last_n = 2
    /\ Len(index) = 1 /\ index[1].run_id = 1

====
